---- MODULE Spec2Model ----
(***************************************************************************)
(* A model of tools/gpu-pcie-tuner.py: the PCIe topology walk, the setpci  *)
(* register accessor and the link operations (set-MPS, set-MRRS,           *)
(* Completion-Timeout-Disable/Range, ACS, Extended Tag).  Strings are      *)
(* sequences of one-character strings; registers are integers of their     *)
(* hardware width; every setpci/lspci call is one step whose outcome the   *)
(* environment chooses.                                                    *)
(***************************************************************************)
EXTENDS Integers, Sequences, FiniteSets, TLC

(***************************************************************************)
(* Bounds of the model.                                                    *)
(***************************************************************************)
\* register accesses that the environment may make fail in one behaviour
MaxFaults == 1
\* times the same command is invoked in a row on the same hardware
MaxRuns == 2

(***************************************************************************)
(* Bit arithmetic on register values.                                      *)
(***************************************************************************)
Pow2(n) == 2 ^ n

\* (v >> lo) & (2^width - 1)
Field(v, lo, width) == (v \div Pow2(lo)) % Pow2(width)

\* (v & ~(mask << lo)) | (x << lo), for a field of `width` bits holding x
WithField(v, lo, width, x) == v - Field(v, lo, width) * Pow2(lo) + x * Pow2(lo)

\* v & (1 << i) != 0
BitSet(v, i) == Field(v, i, 1) = 1

(***************************************************************************)
(* Strings.                                                                *)
(***************************************************************************)
HexDigits ==
  {"0", "1", "2", "3", "4", "5", "6", "7", "8", "9",
   "a", "b", "c", "d", "e", "f", "A", "B", "C", "D", "E", "F"}

Whitespace == {" ", "\t", "\n"}

\* the string DDDD:BB:dd.F
Bdf(d1, d2, d3, d4, b1, b2, v1, v2, f) ==
  <<d1, d2, d3, d4, ":", b1, b2, ":", v1, v2, ".", f>>

\* the body of the pattern, without its anchors
BdfPattern(s) ==
  /\ Len(s) = 12
  /\ \A i \in {1, 2, 3, 4, 6, 7, 9, 10, 12} : s[i] \in HexDigits
  /\ s[5] = ":" /\ s[8] = ":" /\ s[11] = "."

\* re.match(r'^...$', bdf): Python's $ also matches just before a final newline
is_pci_bdf(s) ==
  \/ BdfPattern(s)
  \/ /\ Len(s) = 13
     /\ s[13] = "\n"
     /\ BdfPattern(SubSeq(s, 1, 12))

\* the index of the first character at or after i that is (not) whitespace
RECURSIVE SkipWhile(_, _, _)
SkipWhile(s, i, white) ==
  IF i > Len(s) \/ ((s[i] \in Whitespace) # white) THEN i
  ELSE SkipWhile(s, i + 1, white)

\* line.split()[0]: the first whitespace-delimited token
SplitFirst(line) ==
  LET b == SkipWhile(line, 1, TRUE)
      e == SkipWhile(line, b, FALSE)
  IN  SubSeq(line, b, e - 1)

\* "pci" in s
ContainsPci(s) ==
  \E i \in 1..(Len(s) - 2) : s[i] = "p" /\ s[i + 1] = "c" /\ s[i + 2] = "i"

(***************************************************************************)
(* State.                                                                  *)
(***************************************************************************)
VARIABLES
  host,      \* what the run cannot change: lspci's listing, the capability
             \* registers and which capability structures each device has
  devctl,    \* Device Control (CAP_EXP+8, 16 bits) of each device
  devctl2,   \* Device Control 2 and Device Status 2 (CAP_EXP+28, 32 bits)
  acsctl,    \* ACS control (ECAP_ACS+6, 8 bits)
  cmd,       \* the command invoked: [op, value]
  run,       \* 1 for the first invocation of cmd, 2 for the second, ...
  pc,        \* the statement the invocation is at
  loc,       \* the local variables of the running functions
  result,    \* how the invocation ended
  faults,    \* accesses the environment has made fail so far
  prev,      \* the number of writes the invocation before this one issued
  wlog,      \* every register write the invocation issued, in order: the
             \* endpoint it was for, the device, the register, the value,
             \* how the call ended and what the register held before
  rset,      \* every register read it issued: <<device, register>>
  out        \* what it reported: [gi, dev, msg]

vars ==
  <<host, devctl, devctl2, acsctl, cmd, run, pc, loc, result, faults, prev,
    wlog, rset, out>>

\* a read that returned None
None == -1

\* no device: the dev field of a report about a whole endpoint
NoDev == <<>>

(***************************************************************************)
(* The host: its devices and its PCI hierarchy (sysfs).                    *)
(***************************************************************************)
EP_A == Bdf("0", "0", "0", "0", "4", "1", "0", "0", "0")
BR_A == Bdf("0", "0", "0", "0", "4", "0", "0", "1", "0")
RP_A == Bdf("0", "0", "0", "0", "0", "0", "0", "2", "0")
EP_B == Bdf("0", "0", "0", "0", "4", "2", "0", "0", "0")
\* listed by lspci but absent from /sys/bus/pci/devices
EP_X == Bdf("0", "0", "0", "0", "4", "3", "0", "0", "0")

Devices == {EP_A, BR_A, RP_A, EP_B}

SysDevices == <<"s", "y", "s">>
DevicesDir == <<"d", "e", "v", "i", "c", "e", "s">>
PciRoot == <<"p", "c", "i", "0", "0", "0", "0", ":", "0", "0">>
\* the directory of a host bridge that sits below a PCI device
PciNested == <<"p", "c", "i", "0", "0", "0", "0", ":", "4", "0">>

\* os.path.realpath("/sys/bus/pci/devices/<bdf>") as its components, or <<>>
\* when the link does not exist.  In the "flat" hierarchy every device sits
\* below pci0000:00; in the "nested" one the bridge 0000:40:01.0 is the root
\* port of a host bridge of its own, pci0000:40, that hangs below 0000:00:02.0
RealPath(bdf) ==
  IF bdf = EP_A /\ host.tree = "nested"
  THEN <<SysDevices, DevicesDir, PciRoot, RP_A, PciNested, BR_A, EP_A>>
  ELSE IF bdf = BR_A /\ host.tree = "nested"
  THEN <<SysDevices, DevicesDir, PciRoot, RP_A, PciNested, BR_A>>
  ELSE IF bdf = EP_A THEN <<SysDevices, DevicesDir, PciRoot, RP_A, BR_A, EP_A>>
  ELSE IF bdf = BR_A THEN <<SysDevices, DevicesDir, PciRoot, RP_A, BR_A>>
  ELSE IF bdf = EP_B THEN <<SysDevices, DevicesDir, PciRoot, RP_A, EP_B>>
  ELSE IF bdf = RP_A THEN <<SysDevices, DevicesDir, PciRoot, RP_A>>
  ELSE <<>>

\* the walk of get_pci_path_to_root from the first k components upwards
RECURSIVE WalkUp(_, _)
WalkUp(comps, k) ==
  IF k = 0 \/ ~(\E j \in 1..k : ContainsPci(comps[j])) THEN <<>>
  ELSE (IF is_pci_bdf(comps[k]) THEN <<comps[k]>> ELSE <<>>)
       \o WalkUp(comps, k - 1)

\* get_pci_path_to_root: the path from the endpoint to its root port, <<>> for
\* None
get_pci_path_to_root(endpoint_bdf) ==
  IF ~is_pci_bdf(endpoint_bdf) THEN <<>>
  ELSE IF RealPath(endpoint_bdf) = <<>> THEN <<>>
  ELSE WalkUp(RealPath(endpoint_bdf), Len(RealPath(endpoint_bdf)))

\* a lookup that falls back on the address itself when there is no path
get_root_port_Fallback(pci_addr) ==
  LET path == get_pci_path_to_root(pci_addr)
  IN  IF path = <<>> THEN pci_addr ELSE path[Len(path)]

\* the immediate parent taken for the root port
get_root_port_Parent(pci_addr) ==
  LET path == get_pci_path_to_root(pci_addr)
  IN  IF path = <<>> THEN <<>> ELSE path[IF Len(path) > 1 THEN 2 ELSE 1]

\* the address itself taken for its root port
get_root_port_Self(pci_addr) ==
  IF get_pci_path_to_root(pci_addr) = <<>> THEN <<>> ELSE pci_addr

\* get_root_port: the last device of the path, <<>> for None
get_root_port(pci_addr) ==
  LET path == get_pci_path_to_root(pci_addr)
  IN  IF path = <<>> THEN <<>> ELSE path[Len(path)]

(***************************************************************************)
(* The listing of get_lspci_gpu_list: each line is an address followed by  *)
(* a description.                                                          *)
(***************************************************************************)
Nvidia == <<" ", "N", "V", "I", "D", "I", "A">>

LineA == EP_A \o Nvidia
LineB == EP_B \o Nvidia
LineX == EP_X \o Nvidia
\* a line of lspci on a host of one domain: the address has no domain
LineS == SubSeq(EP_A, 6, 12) \o Nvidia

Listings == {<<>>, <<LineA, LineB>>, <<LineX, LineB>>}

\* with the listing of a host whose lspci prints no domain
ListingsShort == Listings \cup {<<LineS, LineB>>}

\* a card on the root bus: its path is the card alone
LineR == RP_A \o Nvidia

ListingsRoot == ListingsShort \cup {<<LineR>>}

\* gpu_lines = get_lspci_gpu_list()
gpu_lines == host.lines

\* gpu_devices = [line.split()[0] for line in gpu_lines]
gpu_devices == [i \in 1..Len(gpu_lines) |-> SplitFirst(gpu_lines[i])]

(***************************************************************************)
(* The register accessor.                                                  *)
(***************************************************************************)
CAP_FLAGS == "CAP_EXP+2.w"
CAP_DEVCAP == "CAP_EXP+4.l"
\* Device Control 2 taken for Device Control
TARGET_REGISTER_DevCtl2 == "CAP_EXP+28.w"

TARGET_REGISTER == "CAP_EXP+8.w"
CAP_DEVCAP2 == "CAP_EXP+24.L"
CAP_DEVCTL2_W == "CAP_EXP+28.w"
CAP_DEVCTL2_L == "CAP_EXP+28.L"
ECAP_ACS_CTL == "ECAP_ACS+6.b"
LSPCI_VVS == "lspci -vvs"

\* setpci finds the device and the capability structure the register is in
\* the address without its domain, as lspci prints it and as setpci accepts it
\* on a host of one domain
Short(bdf) == SubSeq(bdf, 6, 12)

\* the device that setpci -s and lspci -s select for an address
Slot(addr) ==
  IF \E x \in Devices : Short(x) = addr
  THEN CHOOSE x \in Devices : Short(x) = addr
  ELSE addr

RegPresent(d, r) ==
  /\ Slot(d) \in Devices
  /\ IF r = ECAP_ACS_CTL THEN host.acscap[Slot(d)]
     ELSE IF r = LSPCI_VVS THEN TRUE
     ELSE host.pciecap[Slot(d)]

\* the value the hardware holds
RegValue(d, r) ==
  IF r = CAP_FLAGS THEN 66
  ELSE IF r = CAP_DEVCAP THEN host.devcap[Slot(d)]
  ELSE IF r = TARGET_REGISTER THEN devctl[Slot(d)]
  ELSE IF r = CAP_DEVCAP2 THEN host.devcap2[Slot(d)]
  ELSE IF r = CAP_DEVCTL2_W THEN devctl2[Slot(d)] % 65536
  ELSE IF r = CAP_DEVCTL2_L THEN devctl2[Slot(d)]
  ELSE acsctl[Slot(d)]

\* how one subprocess call may end.  "ok": exit status 0; "fail": non-zero
\* exit status or unparsable output; "timeout": the call exceeded timeout=5;
\* "ignored": a write with exit status 0 that the device did not latch.
\* An absent device or capability always fails; the other failures are the
\* environment's choice, at most MaxFaults of them.
\* "notfound": the program that subprocess is to start (first: sudo, or
\* setpci where the code calls it directly) is not installed, which raises
\* FileNotFoundError.  With sudo installed and setpci missing, sudo exits
\* with a non-zero status.
Outcomes(first, d, r, faulty) ==
  IF first \notin host.tools THEN {"notfound"}
  ELSE IF "setpci" \notin host.tools \/ ~RegPresent(d, r) THEN {"fail"}
  ELSE {"ok"} \cup (IF faults < MaxFaults THEN faulty ELSE {})

ReadOutcomes(d, r) == Outcomes("sudo", d, r, {"fail", "timeout"})

WriteOutcomes(d, r) == Outcomes("sudo", d, r, {"ignored", "fail", "timeout"})

FaultCost(d, r, o) ==
  IF o \notin {"ok", "notfound"} /\ RegPresent(d, r) /\ "setpci" \in host.tools
  THEN 1 ELSE 0

\* _run_setpci_read: the register's value, None when the call failed (a
\* timeout is not caught there: see Raise)
_run_setpci_read(d, r, o) == IF o = "ok" THEN RegValue(d, r) ELSE None

\* _run_setpci_write: True when setpci exited with status 0
_run_setpci_write(o) == o \in {"ok", "ignored"}

\* the effect of issuing a read: nothing but the record of it
DoRead(d, r, o) ==
  /\ rset' = IF o = "notfound" THEN rset ELSE rset \cup {<<d, r>>}
  /\ faults' = faults + FaultCost(d, r, o)
  /\ UNCHANGED <<host, devctl, devctl2, acsctl, cmd, run, prev, wlog>>

\* the effect of issuing a write of val
DoWrite(d, r, val, o) ==
  /\ wlog' = IF o = "notfound" THEN wlog
             ELSE Append(wlog, [gi |-> loc.gi, dev |-> d, reg |-> r, val |-> val,
                                o |-> o,
                                old |-> IF RegPresent(d, r) THEN RegValue(d, r)
                                        ELSE None])
  /\ faults' = faults + FaultCost(d, r, o)
  /\ devctl' = IF o = "ok" /\ r = TARGET_REGISTER
               THEN [devctl EXCEPT ![Slot(d)] = val % 65536] ELSE devctl
  /\ devctl2' = IF o = "ok" /\ r = CAP_DEVCTL2_W
                THEN [devctl2 EXCEPT ![Slot(d)] = ((@ \div 65536) * 65536) + (val % 65536)]
                ELSE IF o = "ok" /\ r = CAP_DEVCTL2_L
                THEN [devctl2 EXCEPT ![Slot(d)] = val]
                ELSE devctl2
  /\ acsctl' = IF o = "ok" /\ r = ECAP_ACS_CTL
               THEN [acsctl EXCEPT ![Slot(d)] = val % 256] ELSE acsctl
  /\ UNCHANGED <<host, cmd, run, prev, rset>>

\* a step that touches no register
NoAccess ==
  UNCHANGED <<host, devctl, devctl2, acsctl, cmd, run, faults, prev, wlog,
              rset>>

\* the invocation ends: "ret0", "ret1", "ret2" (the value returned),
\* "retNone", "exit1" (sys.exit(1)) or "exception" (an uncaught exception)
Finish(how) ==
  /\ pc' = "done"
  /\ result' = how

Report(d, msg) == out' = out \cup {[gi |-> loc.gi, dev |-> d, msg |-> msg]}

(***************************************************************************)
(* The local variables, as the invocation starts.                          *)
(***************************************************************************)
Loc0 ==
  [gi |-> 0,               \* index of the endpoint being processed
   path |-> <<>>,          \* its path to the root port
   di |-> 0,               \* index of the device being processed
   devs |-> <<>>,          \* the devices the loop runs over
   caps |-> <<>>,          \* set_max_payload: the MPS capability codes read
   reg |-> 0,              \* the register value last read
   endpoint_value |-> 0,   \* get_extend_status: the endpoint's register
   ok |-> TRUE,            \* the outcome on the current device
   ok_all |-> TRUE,        \* the outcome on the current endpoint
   overall_ok |-> TRUE,    \* the outcome on all endpoints so far
   phase |-> "pre"]        \* enable_pcie_extend: before or after the writes

\* an uncaught subprocess.TimeoutExpired ends the process with a traceback
Raise ==
  /\ Finish("exception")
  /\ UNCHANGED <<loc, out>>

\* an access that did not return: TimeoutExpired leaves the function as an
\* exception; FileNotFoundError ends in sys.exit(1), in _run_setpci_read or
\* in the handler of the command
Abort(o) ==
  /\ Finish(IF o = "notfound" THEN "exit1" ELSE "exception")
  /\ UNCHANGED <<loc, out>>

\* get_lspci_gpu_list: sys.exit(1) when lspci is not installed
LspciMissing == "lspci" \notin host.tools

\* min(caps)
RECURSIVE SeqMin(_)
SeqMin(s) ==
  IF Len(s) = 1 THEN s[1]
  ELSE LET m == SeqMin(Tail(s)) IN IF s[1] < m THEN s[1] ELSE m

(***************************************************************************)
(* set_max_payload and its helpers.                                        *)
(***************************************************************************)
\* _has_pcie_cap, given what the read of CAP_EXP+2.w returned
_has_pcie_cap(v) == v # None /\ v # 0

\* _get_mps_cap_code, given what the read of CAP_EXP+4.l returned
_get_mps_cap_code(v) == IF v = None \/ v = 0 THEN None ELSE Field(v, 0, 3)

\* _get_mps_current_code, given what the read of CAP_EXP+8.w returned
_get_mps_current_code(v) == IF v = None THEN None ELSE Field(v, 5, 3)

\* the code put one bit too low
MpsNewVal_Shift4(v, code) == WithField(v, 4, 3, code)

\* _set_mps_code: the value written
MpsNewVal(v, code) == WithField(v, 5, 3, code)

\* the endpoint passed over without a word and without overall_ok = False
MpsSkipEndpoint_Quiet(msg) ==
  /\ loc' = [loc EXCEPT !.gi = @ + 1]
  /\ pc' = "mps_gpu"
  /\ UNCHANGED <<result, out>>

\* the endpoint is given up: overall_ok = False; continue
MpsSkipEndpoint(msg) ==
  /\ loc' = [loc EXCEPT !.overall_ok = FALSE, !.gi = @ + 1]
  /\ pc' = "mps_gpu"
  /\ Report(NoDev, msg)
  /\ UNCHANGED result

\* the checks before the loop over the endpoints
set_max_payload ==
  /\ pc = "start"
  /\ cmd.op = "set_max_payload"
  /\ NoAccess
  /\ IF cmd.value \notin 0..5
     THEN Report(NoDev, "Invalid value")
     ELSE UNCHANGED out
  /\ IF cmd.value \notin 0..5
     THEN Finish("ret2") /\ UNCHANGED loc
     ELSE IF LspciMissing
     THEN Finish("exit1") /\ UNCHANGED loc
     ELSE IF gpu_devices = <<>>
     THEN Finish("ret1") /\ UNCHANGED loc
     ELSE /\ pc' = "mps_gpu"
          /\ loc' = [Loc0 EXCEPT !.gi = 1]
          /\ UNCHANGED result

\* for gpu in gpu_bdfs: the path lookup; return after the last endpoint
mps_gpu ==
  /\ pc = "mps_gpu"
  /\ NoAccess
  /\ IF loc.gi > Len(gpu_devices)
     THEN /\ Finish(IF loc.overall_ok THEN "ret0" ELSE "ret2")
          /\ UNCHANGED <<loc, out>>
     ELSE LET path == get_pci_path_to_root(gpu_devices[loc.gi])
          IN  IF path = <<>>
              THEN MpsSkipEndpoint("no path")
              ELSE /\ loc' = [loc EXCEPT !.path = path, !.di = 1,
                                         !.devs = <<>>, !.caps = <<>>]
                   /\ pc' = "mps_filter"
                   /\ UNCHANGED <<result, out>>

\* devs = [d for d in path if _has_pcie_cap(d)]; if not devs: skip
mps_filter ==
  /\ pc = "mps_filter"
  /\ IF loc.di > Len(loc.path)
     THEN /\ NoAccess
          /\ IF loc.devs = <<>>
             THEN MpsSkipEndpoint("no PCIe-capable devices")
             ELSE /\ loc' = [loc EXCEPT !.di = 1]
                  /\ pc' = "mps_cap"
                  /\ UNCHANGED <<result, out>>
     ELSE LET d == loc.path[loc.di]
          IN  \E o \in ReadOutcomes(d, CAP_FLAGS) :
                /\ DoRead(d, CAP_FLAGS, o)
                /\ IF o \in {"timeout", "notfound"} THEN Abort(o)
                   ELSE /\ loc' = [loc EXCEPT
                             !.devs = IF _has_pcie_cap(_run_setpci_read(d, CAP_FLAGS, o))
                                      THEN Append(@, d) ELSE @,
                             !.di = @ + 1]
                        /\ UNCHANGED <<pc, result, out>>

\* for d in devs: cap_code = _get_mps_cap_code(d), its first read; after the
\* loop, the comparison of the request with min(caps)
mps_cap ==
  /\ pc = "mps_cap"
  /\ IF loc.di > Len(loc.devs)
     THEN /\ NoAccess
          /\ IF loc.caps = <<>>
             THEN MpsSkipEndpoint("no MPS Cap read")
             ELSE IF cmd.value > SeqMin(loc.caps)
             THEN MpsSkipEndpoint("exceeds link max")
             ELSE /\ loc' = [loc EXCEPT !.di = 1, !.ok_all = TRUE]
                  /\ pc' = "mps_set"
                  /\ UNCHANGED <<result, out>>
     ELSE LET d == loc.devs[loc.di]
          IN  \E o \in ReadOutcomes(d, CAP_FLAGS) :
                /\ DoRead(d, CAP_FLAGS, o)
                /\ IF o \in {"timeout", "notfound"} THEN Abort(o)
                   ELSE IF _has_pcie_cap(_run_setpci_read(d, CAP_FLAGS, o))
                   THEN /\ pc' = "mps_cap_read"
                        /\ UNCHANGED <<loc, result, out>>
                   ELSE /\ loc' = [loc EXCEPT !.di = @ + 1]
                        /\ UNCHANGED <<pc, result, out>>

\* _get_mps_cap_code: the read of Device Capabilities; caps.append(cap_code)
\* unless it is None
mps_cap_read ==
  /\ pc = "mps_cap_read"
  /\ LET d == loc.devs[loc.di]
     IN  \E o \in ReadOutcomes(d, CAP_DEVCAP) :
           /\ DoRead(d, CAP_DEVCAP, o)
           /\ IF o \in {"timeout", "notfound"} THEN Abort(o)
              ELSE LET cap_code == _get_mps_cap_code(_run_setpci_read(d, CAP_DEVCAP, o))
                   IN  /\ loc' = [loc EXCEPT
                            !.caps = IF cap_code = None THEN @ ELSE Append(@, cap_code),
                            !.di = @ + 1]
                       /\ pc' = "mps_cap"
                       /\ UNCHANGED <<result, out>>

\* _set_mps_code returned False before its read-back
MpsSetFailed ==
  /\ loc' = [loc EXCEPT !.ok = FALSE]
  /\ pc' = "mps_cur"
  /\ UNCHANGED <<result, out>>

\* for d in devs: ok = _set_mps_code(d, code), its first read; after the loop,
\* overall_ok = overall_ok and ok_all
mps_set ==
  /\ pc = "mps_set"
  /\ IF loc.di > Len(loc.devs)
     THEN /\ NoAccess
          /\ loc' = [loc EXCEPT !.overall_ok = @ /\ loc.ok_all, !.gi = @ + 1]
          /\ pc' = "mps_gpu"
          /\ UNCHANGED <<result, out>>
     ELSE LET d == loc.devs[loc.di]
          IN  \E o \in ReadOutcomes(d, CAP_FLAGS) :
                /\ DoRead(d, CAP_FLAGS, o)
                /\ IF o \in {"timeout", "notfound"} THEN Abort(o)
                   ELSE IF _has_pcie_cap(_run_setpci_read(d, CAP_FLAGS, o))
                   THEN /\ pc' = "mps_set_read"
                        /\ UNCHANGED <<loc, result, out>>
                   ELSE MpsSetFailed

\* _set_mps_code: reg = _run_setpci_read(bdf, "CAP_EXP+8.w")
mps_set_read ==
  /\ pc = "mps_set_read"
  /\ LET d == loc.devs[loc.di]
     IN  \E o \in ReadOutcomes(d, TARGET_REGISTER) :
           /\ DoRead(d, TARGET_REGISTER, o)
           /\ IF o \in {"timeout", "notfound"} THEN Abort(o)
              ELSE IF _run_setpci_read(d, TARGET_REGISTER, o) = None
              THEN MpsSetFailed
              ELSE /\ loc' = [loc EXCEPT !.reg = _run_setpci_read(d, TARGET_REGISTER, o)]
                   /\ pc' = "mps_set_write"
                   /\ UNCHANGED <<result, out>>

\* _set_mps_code: the write of new_val
mps_set_write ==
  /\ pc = "mps_set_write"
  /\ LET d == loc.devs[loc.di]
     IN  \E o \in WriteOutcomes(d, TARGET_REGISTER) :
           /\ DoWrite(d, TARGET_REGISTER, MpsNewVal(loc.reg, cmd.value), o)
           /\ IF o \in {"timeout", "notfound"} THEN Raise
              ELSE IF _run_setpci_write(o)
              THEN /\ pc' = "mps_rb"
                   /\ UNCHANGED <<loc, result, out>>
              ELSE MpsSetFailed

\* _set_mps_code: rb = _get_mps_current_code(bdf), its first read
mps_rb ==
  /\ pc = "mps_rb"
  /\ LET d == loc.devs[loc.di]
     IN  \E o \in ReadOutcomes(d, CAP_FLAGS) :
           /\ DoRead(d, CAP_FLAGS, o)
           /\ IF o \in {"timeout", "notfound"} THEN Abort(o)
              ELSE IF _has_pcie_cap(_run_setpci_read(d, CAP_FLAGS, o))
              THEN /\ pc' = "mps_rb_read"
                   /\ UNCHANGED <<loc, result, out>>
              ELSE MpsSetFailed

\* _set_mps_code: the read-back; return rb == code
mps_rb_read ==
  /\ pc = "mps_rb_read"
  /\ LET d == loc.devs[loc.di]
     IN  \E o \in ReadOutcomes(d, TARGET_REGISTER) :
           /\ DoRead(d, TARGET_REGISTER, o)
           /\ IF o \in {"timeout", "notfound"} THEN Abort(o)
              ELSE LET rb == _get_mps_current_code(_run_setpci_read(d, TARGET_REGISTER, o))
                   IN  /\ loc' = [loc EXCEPT !.ok = (rb = cmd.value)]
                       /\ pc' = "mps_cur"
                       /\ UNCHANGED <<result, out>>

\* a loop that leaves the endpoint's path at the first device that failed
MpsReport_Abort(d) ==
  /\ Report(d, IF loc.ok THEN "OK" ELSE "FAILED")
  /\ loc' = [loc EXCEPT !.ok_all = @ /\ loc.ok,
                        !.di = IF loc.ok THEN @ + 1 ELSE Len(loc.devs) + 1]
  /\ pc' = "mps_set"
  /\ UNCHANGED result

\* a loop that forgets the failure of a device
MpsReport_Forgets(d) ==
  /\ Report(d, IF loc.ok THEN "OK" ELSE "FAILED")
  /\ loc' = [loc EXCEPT !.di = @ + 1]
  /\ pc' = "mps_set"
  /\ UNCHANGED result

\* the device is reported OK or FAILED; ok_all = False when it failed
MpsReport(d) ==
  /\ Report(d, IF loc.ok THEN "OK" ELSE "FAILED")
  /\ loc' = [loc EXCEPT !.ok_all = @ /\ loc.ok, !.di = @ + 1]
  /\ pc' = "mps_set"
  /\ UNCHANGED result

\* cur_code = _get_mps_current_code(d), its first read
mps_cur ==
  /\ pc = "mps_cur"
  /\ LET d == loc.devs[loc.di]
     IN  \E o \in ReadOutcomes(d, CAP_FLAGS) :
           /\ DoRead(d, CAP_FLAGS, o)
           /\ IF o \in {"timeout", "notfound"} THEN Abort(o)
              ELSE IF _has_pcie_cap(_run_setpci_read(d, CAP_FLAGS, o))
              THEN /\ pc' = "mps_cur_read"
                   /\ UNCHANGED <<loc, result, out>>
              ELSE MpsReport(d)

\* cur_code = _get_mps_current_code(d), its second read;
\* _MPS_CODE_TO_BYTES[cur_code] raises KeyError for the codes 6 and 7
mps_cur_read ==
  /\ pc = "mps_cur_read"
  /\ LET d == loc.devs[loc.di]
     IN  \E o \in ReadOutcomes(d, TARGET_REGISTER) :
           /\ DoRead(d, TARGET_REGISTER, o)
           /\ IF o \in {"timeout", "notfound"} THEN Abort(o)
              ELSE IF _get_mps_current_code(_run_setpci_read(d, TARGET_REGISTER, o)) \in {6, 7}
              THEN Raise
              ELSE MpsReport(d)

(***************************************************************************)
(* enable_acs, disable_acs and configure_acs_for_upstream_ports.           *)
(***************************************************************************)
\* what is handed to configure_acs_for_upstream_ports, call after call:
\* enable_acs and disable_acs loop over gpu_lines; the function can also be
\* called on its own with one address
acs_targets ==
  IF cmd.op = "configure_acs_for_upstream_ports" THEN <<cmd.arg>> ELSE gpu_lines

target_state ==
  IF cmd.op = "enable_acs" THEN "enable"
  ELSE IF cmd.op = "disable_acs" THEN "disable"
  ELSE cmd.state

\* target_value = 0x1d if target_state.lower() == 'enable' else 0x00
AcsTargetValue(state) == IF state = "enable" THEN 29 ELSE 0

\* a loop that passes over the endpoint only
AcsSkipsIndex_EndpointOnly(i, n) == i = 1

\* the devices of the path configure_acs_for_upstream_ports passes over:
\* index i of a path of n devices (the first index is 1 here)
AcsSkipsIndex(i, n) == i = 1 \/ i = n

\* the loop over the endpoints starts
AcsBegin ==
  /\ pc = "start"
  /\ NoAccess
  /\ UNCHANGED out
  /\ IF LspciMissing
     THEN Finish("exit1") /\ UNCHANGED loc
     ELSE IF gpu_devices = <<>>
     THEN Finish("retNone") /\ UNCHANGED loc
     ELSE /\ pc' = "acs_gpu"
          /\ loc' = [Loc0 EXCEPT !.gi = 1]
          /\ UNCHANGED result

enable_acs ==
  /\ cmd.op = "enable_acs"
  /\ AcsBegin

disable_acs ==
  /\ cmd.op = "disable_acs"
  /\ AcsBegin

\* a call of the function on one address
configure_acs_for_upstream_ports ==
  /\ pc = "start"
  /\ cmd.op = "configure_acs_for_upstream_ports"
  /\ NoAccess
  /\ pc' = "acs_gpu"
  /\ loc' = [Loc0 EXCEPT !.gi = 1]
  /\ UNCHANGED <<result, out>>

\* configure_acs_for_upstream_ports returned False before its loop
AcsCallFailed(msg) ==
  /\ loc' = [loc EXCEPT !.overall_ok = FALSE, !.gi = @ + 1]
  /\ Report(NoDev, msg)
  /\ UNCHANGED <<pc, result>>

\* for pci_addr in gpu_lines: configure_acs_for_upstream_ports(pci_addr, ...)
\* up to its loop; after the last call the command ends
acs_gpu ==
  /\ pc = "acs_gpu"
  /\ NoAccess
  /\ IF loc.gi > Len(acs_targets)
     THEN /\ Finish(IF cmd.op # "configure_acs_for_upstream_ports" THEN "retNone"
                    ELSE IF loc.overall_ok THEN "retTrue" ELSE "retFalse")
          /\ UNCHANGED <<loc, out>>
     ELSE LET pci_addr == acs_targets[loc.gi]
              path == get_pci_path_to_root(pci_addr)
          IN  IF ~is_pci_bdf(pci_addr) THEN AcsCallFailed("not a valid BDF")
              ELSE IF path = <<>> THEN AcsCallFailed("no path")
              ELSE /\ loc' = [loc EXCEPT !.path = path, !.di = 1, !.ok_all = TRUE]
                   /\ pc' = "acs_dev"
                   /\ UNCHANGED <<result, out>>

\* FileNotFoundError is not handled in configure_acs_for_upstream_ports;
\* enable_acs and disable_acs answer it with sys.exit(1)
AcsNotFound ==
  /\ Finish(IF cmd.op = "configure_acs_for_upstream_ports" THEN "exception"
            ELSE "exit1")
  /\ UNCHANGED <<loc, out>>

\* every device taken to have the ACS capability
HasAcsCtl_Always(bdf) == TRUE

\* "ACSCtl:" in acs_check.stdout
HasAcsCtl(bdf) == host.acscap[bdf]

\* for i, bdf in enumerate(path): the two ends are passed over, the others
\* asked for "ACSCtl:" with lspci -vvs; after the loop, return success
acs_dev ==
  /\ pc = "acs_dev"
  /\ IF loc.di > Len(loc.path)
     THEN /\ NoAccess
          /\ loc' = [loc EXCEPT !.overall_ok = @ /\ loc.ok_all, !.gi = @ + 1]
          /\ pc' = "acs_gpu"
          /\ UNCHANGED <<result, out>>
     ELSE IF AcsSkipsIndex(loc.di, Len(loc.path))
     THEN /\ NoAccess
          /\ loc' = [loc EXCEPT !.di = @ + 1]
          /\ UNCHANGED <<pc, result, out>>
     ELSE LET bdf == loc.path[loc.di]
          IN  \E o \in IF LspciMissing THEN {"notfound"}
                       ELSE {"ok"} \cup (IF faults < MaxFaults THEN {"fail"} ELSE {}) :
                /\ DoRead(bdf, LSPCI_VVS, o)
                /\ IF o = "notfound" THEN AcsNotFound
                   ELSE IF o = "fail"
                   THEN /\ loc' = [loc EXCEPT !.ok_all = FALSE, !.di = @ + 1]
                        /\ UNCHANGED <<pc, result, out>>
                   ELSE IF HasAcsCtl(bdf)
                   THEN /\ pc' = "acs_write"
                        /\ UNCHANGED <<loc, result, out>>
                   ELSE /\ loc' = [loc EXCEPT !.di = @ + 1]
                        /\ Report(bdf, "does not support ACS")
                        /\ UNCHANGED <<pc, result>>

\* setpci -s bdf ECAP_ACS+6.b=<target_value>
acs_write ==
  /\ pc = "acs_write"
  /\ LET bdf == loc.path[loc.di]
     IN  \E o \in Outcomes("sudo", bdf, ECAP_ACS_CTL, {"ignored", "fail"}) :
           /\ DoWrite(bdf, ECAP_ACS_CTL, AcsTargetValue(target_state), o)
           /\ IF o = "notfound" THEN AcsNotFound
              ELSE /\ loc' = [loc EXCEPT !.ok_all = @ /\ (o # "fail"), !.di = @ + 1]
                   /\ pc' = "acs_dev"
                   /\ UNCHANGED <<result, out>>

(***************************************************************************)
(* enable_pcie_extend and get_extend_status.                               *)
(***************************************************************************)
EXT_TAG_BIT_INDEX == 8

\* the status taken from the endpoint alone
ExtendStatus_EndpointAlone(endpoint_value, root_value) ==
  IF endpoint_value = None \/ root_value = None THEN "None"
  ELSE IF BitSet(endpoint_value, EXT_TAG_BIT_INDEX) THEN "True"
  ELSE "False"

\* status = endpoint_enabled and root_enabled; None when a read failed
ExtendStatus(endpoint_value, root_value) ==
  IF endpoint_value = None \/ root_value = None THEN "None"
  ELSE IF BitSet(endpoint_value, EXT_TAG_BIT_INDEX) /\ BitSet(root_value, EXT_TAG_BIT_INDEX)
  THEN "True"
  ELSE "False"

\* the mask applied with "and" where the code applies it with "or"
ExtNewVal_And(v) == Field(v, EXT_TAG_BIT_INDEX, 1) * Pow2(EXT_TAG_BIT_INDEX)

\* new_value = current_value | EXT_TAG_BIT_MASK
ExtNewVal(v) == WithField(v, EXT_TAG_BIT_INDEX, 1, 1)

enable_pcie_extend ==
  /\ pc = "start"
  /\ cmd.op = "enable_pcie_extend"
  /\ NoAccess
  /\ UNCHANGED out
  /\ IF LspciMissing
     THEN Finish("exit1") /\ UNCHANGED loc
     ELSE IF gpu_devices = <<>>
     THEN Finish("retNone") /\ UNCHANGED loc
     ELSE /\ pc' = "ext_gpu"
          /\ loc' = [Loc0 EXCEPT !.gi = 1]
          /\ UNCHANGED result

\* for pci_addr in gpu_devices: the path lookups of get_extend_status and of
\* the loop body
ext_gpu ==
  /\ pc = "ext_gpu"
  /\ NoAccess
  /\ IF loc.gi > Len(gpu_devices)
     THEN /\ Finish("retNone")
          /\ UNCHANGED <<loc, out>>
     ELSE LET path == get_pci_path_to_root(gpu_devices[loc.gi])
          IN  IF path = <<>>
              THEN /\ loc' = [loc EXCEPT !.gi = @ + 1]
                   /\ Report(NoDev, "no path")
                   /\ UNCHANGED <<pc, result>>
              ELSE /\ loc' = [loc EXCEPT !.path = path, !.phase = "pre"]
                   /\ pc' = "ext_status"
                   /\ UNCHANGED <<result, out>>

\* get_extend_status: endpoint_value = _run_setpci_read(endpoint_bdf, ...)
ext_status ==
  /\ pc = "ext_status"
  /\ LET d == gpu_devices[loc.gi]
     IN  \E o \in ReadOutcomes(d, TARGET_REGISTER) :
           /\ DoRead(d, TARGET_REGISTER, o)
           /\ IF o \in {"timeout", "notfound"} THEN Abort(o)
              ELSE /\ loc' = [loc EXCEPT
                        !.endpoint_value = _run_setpci_read(d, TARGET_REGISTER, o)]
                   /\ pc' = "ext_status_root"
                   /\ UNCHANGED <<result, out>>

\* get_extend_status: root_value = _run_setpci_read(path[-1], ...), and what
\* enable_pcie_extend does with the status
ext_status_root ==
  /\ pc = "ext_status_root"
  /\ LET d == loc.path[Len(loc.path)]
     IN  \E o \in ReadOutcomes(d, TARGET_REGISTER) :
           /\ DoRead(d, TARGET_REGISTER, o)
           /\ IF o \in {"timeout", "notfound"} THEN Abort(o)
              ELSE LET status == ExtendStatus(loc.endpoint_value,
                                              _run_setpci_read(d, TARGET_REGISTER, o))
                   IN  IF loc.phase = "pre" /\ status # "True"
                       THEN /\ loc' = [loc EXCEPT !.di = 1]
                            /\ pc' = "ext_dev"
                            /\ UNCHANGED <<result, out>>
                       ELSE /\ loc' = [loc EXCEPT !.gi = @ + 1]
                            /\ pc' = "ext_gpu"
                            /\ Report(NoDev,
                                 IF loc.phase = "pre" THEN "Already enabled"
                                 ELSE IF status = "True" THEN "Successfully enabled"
                                 ELSE "Failed to enable")
                            /\ UNCHANGED result

\* for bdf in path: current_value = _run_setpci_read(bdf, TARGET_REGISTER);
\* after the loop, final_status = get_extend_status(pci_addr)
ext_dev ==
  /\ pc = "ext_dev"
  /\ IF loc.di > Len(loc.path)
     THEN /\ NoAccess
          /\ loc' = [loc EXCEPT !.phase = "post"]
          /\ pc' = "ext_status"
          /\ UNCHANGED <<result, out>>
     ELSE LET bdf == loc.path[loc.di]
          IN  \E o \in ReadOutcomes(bdf, TARGET_REGISTER) :
                /\ DoRead(bdf, TARGET_REGISTER, o)
                /\ IF o \in {"timeout", "notfound"} THEN Abort(o)
                   ELSE LET current_value == _run_setpci_read(bdf, TARGET_REGISTER, o)
                        IN  IF current_value = None \/ BitSet(current_value, EXT_TAG_BIT_INDEX)
                            THEN /\ loc' = [loc EXCEPT !.di = @ + 1]
                                 /\ UNCHANGED <<pc, result, out>>
                            ELSE /\ loc' = [loc EXCEPT !.reg = current_value]
                                 /\ pc' = "ext_write"
                                 /\ UNCHANGED <<result, out>>

\* _run_setpci_write(bdf, TARGET_REGISTER, new_value); its result is not used
ext_write ==
  /\ pc = "ext_write"
  /\ LET bdf == loc.path[loc.di]
     IN  \E o \in WriteOutcomes(bdf, TARGET_REGISTER) :
           /\ DoWrite(bdf, TARGET_REGISTER, ExtNewVal(loc.reg), o)
           /\ IF o \in {"timeout", "notfound"} THEN Abort(o)
              ELSE /\ loc' = [loc EXCEPT !.di = @ + 1]
                   /\ pc' = "ext_dev"
                   /\ UNCHANGED <<result, out>>

(***************************************************************************)
(* set_completion_timeout_disable.                                         *)
(***************************************************************************)
\* new_val = (old_val & ~(1 << 4)) | (target_bit << 4)
CtdNewVal(old_val, target_bit) == WithField(old_val, 4, 1, target_bit)

set_completion_timeout_disable ==
  /\ pc = "start"
  /\ cmd.op = "set_completion_timeout_disable"
  /\ NoAccess
  /\ IF cmd.value \notin {0, 1}
     THEN Report(NoDev, "Invalid value")
     ELSE UNCHANGED out
  /\ IF cmd.value \notin {0, 1}
     THEN Finish("retNone") /\ UNCHANGED loc
     ELSE IF LspciMissing
     THEN Finish("exit1") /\ UNCHANGED loc
     ELSE IF gpu_devices = <<>>
     THEN Finish("retNone") /\ UNCHANGED loc
     ELSE /\ pc' = "ctd_gpu"
          /\ loc' = [Loc0 EXCEPT !.gi = 1]
          /\ UNCHANGED result

\* for gpu_bdf in gpu_devices: rc_bdf = get_root_port(gpu_bdf)
ctd_gpu ==
  /\ pc = "ctd_gpu"
  /\ NoAccess
  /\ IF loc.gi > Len(gpu_devices)
     THEN /\ Finish("retNone")
          /\ UNCHANGED <<loc, out>>
     ELSE LET gpu_bdf == gpu_devices[loc.gi]
              rc_bdf == get_root_port(gpu_bdf)
          IN  IF rc_bdf = <<>>
              THEN /\ loc' = [loc EXCEPT !.gi = @ + 1]
                   /\ Report(NoDev, "Cannot find Root Port")
                   /\ UNCHANGED <<pc, result>>
              ELSE /\ loc' = [loc EXCEPT !.devs = <<gpu_bdf, rc_bdf>>, !.di = 1]
                   /\ pc' = "ctd_read"
                   /\ UNCHANGED <<result, out>>

\* for dev_name, bdf in [("GPU", gpu_bdf), ("RC", rc_bdf)]: the read of
\* Device Control 2 and the comparison of new_val with old_val
ctd_read ==
  /\ pc = "ctd_read"
  /\ IF loc.di > Len(loc.devs)
     THEN /\ NoAccess
          /\ loc' = [loc EXCEPT !.gi = @ + 1]
          /\ pc' = "ctd_gpu"
          /\ UNCHANGED <<result, out>>
     ELSE LET bdf == loc.devs[loc.di]
          IN  \E o \in ReadOutcomes(bdf, CAP_DEVCTL2_W) :
                /\ DoRead(bdf, CAP_DEVCTL2_W, o)
                /\ IF o \in {"timeout", "notfound"} THEN Abort(o)
                   ELSE LET old_val == _run_setpci_read(bdf, CAP_DEVCTL2_W, o)
                        IN  IF old_val = None
                            THEN /\ loc' = [loc EXCEPT !.di = @ + 1]
                                 /\ Report(bdf, "Failed to read")
                                 /\ UNCHANGED <<pc, result>>
                            ELSE IF CtdNewVal(old_val, cmd.value) = old_val
                            THEN /\ loc' = [loc EXCEPT !.di = @ + 1]
                                 /\ Report(bdf, "Already")
                                 /\ UNCHANGED <<pc, result>>
                            ELSE /\ loc' = [loc EXCEPT !.reg = old_val]
                                 /\ pc' = "ctd_write"
                                 /\ UNCHANGED <<result, out>>

\* ok = _run_setpci_write(bdf, reg, new_val)
ctd_write ==
  /\ pc = "ctd_write"
  /\ LET bdf == loc.devs[loc.di]
     IN  \E o \in WriteOutcomes(bdf, CAP_DEVCTL2_W) :
           /\ DoWrite(bdf, CAP_DEVCTL2_W, CtdNewVal(loc.reg, cmd.value), o)
           /\ IF o \in {"timeout", "notfound"} THEN Abort(o)
              ELSE /\ loc' = [loc EXCEPT !.di = @ + 1]
                   /\ pc' = "ctd_read"
                   /\ Report(bdf, IF _run_setpci_write(o) THEN "Set" ELSE "Failed to write")
                   /\ UNCHANGED result

(***************************************************************************)
(* set_completion_timeout_range.                                           *)
(***************************************************************************)
RangeDefault == <<"D", "e", "f", "a", "u", "l", "t">>

RangeName(main, sub) == <<main, "_", sub>>

\* register_value_map: the code of each range name, as (name, code) pairs
register_value_map ==
  {<<RangeDefault, 0>>,
   <<RangeName("A", "1"), 1>>, <<RangeName("A", "2"), 2>>,
   <<RangeName("B", "1"), 5>>, <<RangeName("B", "2"), 6>>,
   <<RangeName("C", "1"), 9>>, <<RangeName("C", "2"), 10>>,
   <<RangeName("D", "1"), 13>>, <<RangeName("D", "2"), 14>>}

\* a name of no table entry taken for a valid one
RangeNames_Wider == {e[1] : e \in register_value_map} \cup {<<"E", "_", "1">>}

\* value in register_value_map
RangeNames == {e[1] : e \in register_value_map}

\* register_value_map[value]
RangeCode(value) == (CHOOSE e \in register_value_map : e[1] = value)[2]

\* value.split('_')[0]
RECURSIVE SplitUnderscore(_)
SplitUnderscore(value) ==
  IF value = <<>> \/ Head(value) = "_" THEN <<>>
  ELSE <<Head(value)>> \o SplitUnderscore(Tail(value))

\* support_bit_map.get(general_range, 0), as the index of the bit; -1 for 0
SupportBit(general_range) ==
  IF general_range = <<"A">> THEN 0
  ELSE IF general_range = <<"B">> THEN 1
  ELSE IF general_range = <<"C">> THEN 2
  ELSE IF general_range = <<"D">> THEN 3
  ELSE -1

\* the check of the main range left out
RangeSupported_AnyRange(value, cap_val) ==
  value = RangeDefault \/ Field(cap_val, 0, 4) # 0

\* the two checks of Device Capabilities 2 pass: the device is not fixed to
\* the default range, and it supports the main range asked for
RangeSupported(value, cap_val) ==
  LET supported_mask == Field(cap_val, 0, 4)
      bit == SupportBit(SplitUnderscore(value))
  IN  \/ value = RangeDefault
      \/ /\ supported_mask # 0
         /\ bit # -1
         /\ BitSet(supported_mask, bit)

\* (ctl_val >> 4) & 0x1
TimeoutDisabled(ctl_val) == BitSet(ctl_val, 4)

\* new_val = (ctl_val & ~0xF) | target_register_code
CtrNewVal(ctl_val, value) == WithField(ctl_val, 0, 4, RangeCode(value))

\* except Exception: the error is printed and the function returns
CtrCaught ==
  /\ Finish("retNone")
  /\ UNCHANGED <<loc, out>>

set_completion_timeout_range ==
  /\ pc = "start"
  /\ cmd.op = "set_completion_timeout_range"
  /\ NoAccess
  /\ IF cmd.name \notin RangeNames
     THEN Report(NoDev, "Invalid value")
     ELSE UNCHANGED out
  /\ IF cmd.name \notin RangeNames
     THEN Finish("retNone") /\ UNCHANGED loc
     ELSE IF LspciMissing
     THEN Finish("exit1") /\ UNCHANGED loc
     ELSE IF gpu_devices = <<>>
     THEN Finish("retNone") /\ UNCHANGED loc
     ELSE /\ pc' = "ctr_gpu"
          /\ loc' = [Loc0 EXCEPT !.gi = 1]
          /\ UNCHANGED result

\* the GPU put before its root port
devices_to_configure_EndpointFirst(root_port, pci_addr) ==
  <<pci_addr>> \o (IF root_port # <<>> THEN <<root_port>> ELSE <<>>)

\* devices_to_configure: the root port, when one was found, and then the GPU
devices_to_configure(root_port, pci_addr) ==
  (IF root_port # <<>> THEN <<root_port>> ELSE <<>>) \o <<pci_addr>>

\* for pci_addr in gpu_devices: root_port = get_root_port(pci_addr)
ctr_gpu ==
  /\ pc = "ctr_gpu"
  /\ NoAccess
  /\ UNCHANGED out
  /\ IF loc.gi > Len(gpu_devices)
     THEN /\ Finish("retNone")
          /\ UNCHANGED loc
     ELSE LET pci_addr == gpu_devices[loc.gi]
              root_port == get_root_port(pci_addr)
          IN  /\ loc' = [loc EXCEPT
                   !.devs = devices_to_configure(root_port, pci_addr),
                   !.di = 1]
              /\ pc' = "ctr_cap"
              /\ UNCHANGED result

\* for dev, dev_type in devices_to_configure: the read and the checks of
\* Device Capabilities 2
ctr_cap ==
  /\ pc = "ctr_cap"
  /\ IF loc.di > Len(loc.devs)
     THEN /\ NoAccess
          /\ loc' = [loc EXCEPT !.gi = @ + 1]
          /\ pc' = "ctr_gpu"
          /\ UNCHANGED <<result, out>>
     ELSE LET dev == loc.devs[loc.di]
          IN  \E o \in ReadOutcomes(dev, CAP_DEVCAP2) :
                /\ DoRead(dev, CAP_DEVCAP2, o)
                /\ IF o = "notfound" THEN Abort(o)
                   ELSE IF o = "timeout" THEN CtrCaught
                   ELSE LET cap_val == _run_setpci_read(dev, CAP_DEVCAP2, o)
                        IN  IF cap_val = None
                            THEN /\ loc' = [loc EXCEPT !.di = @ + 1]
                                 /\ Report(dev, "Cannot read Device Capabilities 2")
                                 /\ UNCHANGED <<pc, result>>
                            ELSE IF ~RangeSupported(cmd.name, cap_val)
                            THEN /\ loc' = [loc EXCEPT !.di = @ + 1]
                                 /\ Report(dev, "Does not support")
                                 /\ UNCHANGED <<pc, result>>
                            ELSE /\ pc' = "ctr_ctl"
                                 /\ UNCHANGED <<loc, result, out>>

\* the read of Device Control 2 and the check of its bit 4
ctr_ctl ==
  /\ pc = "ctr_ctl"
  /\ LET dev == loc.devs[loc.di]
     IN  \E o \in ReadOutcomes(dev, CAP_DEVCTL2_L) :
           /\ DoRead(dev, CAP_DEVCTL2_L, o)
           /\ IF o = "notfound" THEN Abort(o)
              ELSE IF o = "timeout" THEN CtrCaught
              ELSE LET ctl_val == _run_setpci_read(dev, CAP_DEVCTL2_L, o)
                   IN  IF ctl_val = None
                       THEN /\ loc' = [loc EXCEPT !.di = @ + 1]
                            /\ pc' = "ctr_cap"
                            /\ Report(dev, "Cannot read Device Control 2")
                            /\ UNCHANGED result
                       ELSE IF TimeoutDisabled(ctl_val)
                       THEN /\ loc' = [loc EXCEPT !.di = @ + 1]
                            /\ pc' = "ctr_cap"
                            /\ Report(dev, "Completion Timeout is disabled")
                            /\ UNCHANGED result
                       ELSE /\ loc' = [loc EXCEPT !.reg = ctl_val]
                            /\ pc' = "ctr_write"
                            /\ UNCHANGED <<result, out>>

\* success = _run_setpci_write(dev, "CAP_EXP+28.L", new_val)
ctr_write ==
  /\ pc = "ctr_write"
  /\ LET dev == loc.devs[loc.di]
     IN  \E o \in WriteOutcomes(dev, CAP_DEVCTL2_L) :
           /\ DoWrite(dev, CAP_DEVCTL2_L, CtrNewVal(loc.reg, cmd.name), o)
           /\ IF o \in {"timeout", "notfound"} THEN CtrCaught
              ELSE /\ loc' = [loc EXCEPT !.di = @ + 1]
                   /\ pc' = "ctr_cap"
                   /\ Report(dev, IF _run_setpci_write(o) THEN "Successfully set"
                                  ELSE "Failed to set")
                   /\ UNCHANGED result

(***************************************************************************)
(* set_max_read_req.                                                       *)
(***************************************************************************)
\* the mask 0x0FFF, which drops bit 15 as well
MrrsNewVal_Mask0FFF(reg_val, value) == WithField(reg_val % 4096, 12, 3, value)

\* reg_new = (reg_val & 0x8FFF) | (int(value) << 12)
MrrsNewVal(reg_val, value) == WithField(reg_val % 65536, 12, 3, value)

set_max_read_req ==
  /\ pc = "start"
  /\ cmd.op = "set_max_read_req"
  /\ NoAccess
  /\ IF cmd.value \notin 0..5
     THEN Report(NoDev, "Invalid value")
     ELSE UNCHANGED out
  /\ IF cmd.value \notin 0..5
     THEN Finish("retNone") /\ UNCHANGED loc
     ELSE IF LspciMissing
     THEN Finish("exit1") /\ UNCHANGED loc
     ELSE IF gpu_devices = <<>>
     THEN Finish("retNone") /\ UNCHANGED loc
     ELSE /\ pc' = "mrrs_read"
          /\ loc' = [Loc0 EXCEPT !.gi = 1]
          /\ UNCHANGED result

\* for pci_addr in gpu_devices: subprocess.check_output(["setpci", "-s",
\* pci_addr, "CAP_EXP+8.w"]) without a timeout.  A non-zero exit status is a
\* CalledProcessError, handled by sys.exit(1); output that int(.., 16) cannot
\* parse is a ValueError nobody catches
mrrs_read ==
  /\ pc = "mrrs_read"
  /\ IF loc.gi > Len(gpu_devices)
     THEN /\ NoAccess
          /\ Finish("retNone")
          /\ UNCHANGED <<loc, out>>
     ELSE LET pci_addr == gpu_devices[loc.gi]
          IN  \E o \in Outcomes("setpci", pci_addr, TARGET_REGISTER,
                                {"fail", "garbled"}) :
                /\ DoRead(pci_addr, TARGET_REGISTER, o)
                /\ UNCHANGED out
                /\ IF o \in {"fail", "notfound"}
                   THEN Finish("exit1") /\ UNCHANGED loc
                   ELSE IF o = "garbled" THEN Finish("exception") /\ UNCHANGED loc
                   ELSE /\ loc' = [loc EXCEPT !.reg = RegValue(pci_addr, TARGET_REGISTER)]
                        /\ pc' = "mrrs_write"
                        /\ UNCHANGED result

\* subprocess.run(["setpci", "-s", pci_addr, "CAP_EXP+8.w=<reg_new>"],
\* check=True)
mrrs_write ==
  /\ pc = "mrrs_write"
  /\ LET pci_addr == gpu_devices[loc.gi]
     IN  \E o \in Outcomes("setpci", pci_addr, TARGET_REGISTER,
                           {"ignored", "fail"}) :
           /\ DoWrite(pci_addr, TARGET_REGISTER, MrrsNewVal(loc.reg, cmd.value), o)
           /\ IF o \in {"fail", "notfound"}
              THEN Finish("exit1") /\ UNCHANGED <<loc, out>>
              ELSE /\ loc' = [loc EXCEPT !.gi = @ + 1]
                   /\ pc' = "mrrs_read"
                   /\ Report(pci_addr, "MRRS")
                   /\ UNCHANGED result

(***************************************************************************)
(* The same command is invoked again on the hardware as the run left it;   *)
(* what is recorded of an invocation starts afresh.                        *)
(***************************************************************************)
Rerun ==
  /\ pc = "done"
  /\ run < MaxRuns
  /\ run' = run + 1
  /\ pc' = "start"
  /\ loc' = Loc0
  /\ result' = "running"
  /\ prev' = Len(wlog)
  /\ wlog' = <<>>
  /\ rset' = {}
  /\ out' = {}
  /\ UNCHANGED <<host, devctl, devctl2, acsctl, cmd, faults>>

(***************************************************************************)
(* The hosts and the commands the model is run on.                         *)
(***************************************************************************)
DevFn(a, b, r, e) == (EP_A :> a) @@ (BR_A :> b) @@ (RP_A :> r) @@ (EP_B :> e)

\* Device Capabilities: bit 15 (role-based error reporting) and the MPS code
\* in bits 0:2; a register that reads 0 is a device of code 0 with no other
\* capability bit
DevCapDefault == DevFn(32773, 32770, 32772, 32773)

CapProfiles ==
  {DevCapDefault,
   DevFn(32773, 0, 32772, 32773),
   DevFn(32773, 32773, 0, 0),
   DevFn(32772, 32768, 32773, 32772)}

PcieCapDefault == DevFn(TRUE, TRUE, TRUE, TRUE)

PcieProfiles ==
  {PcieCapDefault,
   DevFn(TRUE, TRUE, FALSE, TRUE),
   DevFn(FALSE, FALSE, FALSE, FALSE)}

\* Device Control: 16 = 0x0010; 8496 = 0x2130 (MRRS 2, Extended Tag, MPS 1);
\* 20592 = 0x5070 (MRRS 5, MPS 3)
DevCtlDefault == DevFn(16, 16, 16, 16)

DevCtlProfiles == {DevCtlDefault, DevFn(8496, 20592, 16, 8496)}

DevCap2Default == DevFn(3, 3, 3, 3)

DevCtl2Default == DevFn(0, 0, 0, 0)

AcsCapDefault == DevFn(FALSE, TRUE, TRUE, FALSE)

AcsCtlDefault == DevFn(0, 0, 0, 0)

\* Device Control 2: bit 4 is Completion Timeout Disable, bits 0:3 the range
DevCtl2Profiles == {DevCtl2Default, DevFn(16, 0, 2, 22)}

\* Device Capabilities 2: bits 0:3 are the ranges supported (3 = A and B),
\* bit 4 says that the timeout can be disabled
DevCap2Profiles == {DevCap2Default, DevFn(31, 19, 16, 31)}

AcsCapProfiles == {AcsCapDefault, DevFn(FALSE, FALSE, FALSE, FALSE)}

\* 29 = 0x1d, what enable_acs writes
AcsCtlProfiles == {AcsCtlDefault, DevFn(0, 29, 0, 0)}

\* 272 = 0x0110: Extended Tag enabled, on every device or on all but the
\* bridge
ExtDevCtlProfiles ==
  DevCtlProfiles \cup {DevFn(272, 272, 272, 272), DevFn(272, 16, 272, 272)}

Cmd(op, value, name, state, arg) ==
  [op |-> op, value |-> value, name |-> name, state |-> state, arg |-> arg]

Trees == {"flat", "nested"}

\* the programs installed: each command needs lspci, and sudo with setpci
AllTools == {"lspci", "sudo", "setpci"}

ToolSets == {AllTools} \cup {AllTools \ {t} : t \in AllTools}

HostOf(lines, devcap, devcap2, pciecap, acscap, tree) ==
  [lines |-> lines, devcap |-> devcap, devcap2 |-> devcap2,
   pciecap |-> pciecap, acscap |-> acscap, tree |-> tree, tools |-> AllTools]

\* the host of two endpoints with a program missing
HostLacking(k) ==
  [HostOf(<<LineA, LineB>>, DevCapDefault, DevCap2Default, PcieCapDefault,
          AcsCapDefault, "flat") EXCEPT !.tools = k]

InitMps ==
  /\ \E v \in {0, 1, 3, 6} : cmd = Cmd("set_max_payload", v, <<>>, "", <<>>)
  /\ \E l \in Listings, c \in CapProfiles, p \in PcieProfiles :
       /\ c = DevCapDefault \/ p = PcieCapDefault
       /\ host = HostOf(l, c, DevCap2Default, p, AcsCapDefault, "flat")
  /\ devctl = DevFn(8496, 20592, 16, 8496)
  /\ devctl2 = DevCtl2Default
  /\ acsctl = AcsCtlDefault

InitMrrs ==
  /\ \E v \in {2, 5, 6} : cmd = Cmd("set_max_read_req", v, <<>>, "", <<>>)
  /\ \E l \in Listings, p \in PcieProfiles :
       host = HostOf(l, DevCapDefault, DevCap2Default, p, AcsCapDefault, "flat")
  /\ devctl \in DevCtlProfiles
  /\ devctl2 = DevCtl2Default
  /\ acsctl = AcsCtlDefault

InitCtd ==
  /\ \E v \in {0, 1, 2} :
       cmd = Cmd("set_completion_timeout_disable", v, <<>>, "", <<>>)
  /\ \E l \in ListingsRoot, p \in {PcieCapDefault, DevFn(TRUE, TRUE, FALSE, TRUE)} :
       host = HostOf(l, DevCapDefault, DevCap2Default, p, AcsCapDefault, "flat")
  /\ devctl = DevCtlDefault
  /\ devctl2 \in DevCtl2Profiles
  /\ acsctl = AcsCtlDefault

InitCtr ==
  /\ \E n \in {RangeDefault, RangeName("A", "1"), RangeName("C", "1"),
               RangeName("D", "2"), <<"E", "_", "1">>} :
       cmd = Cmd("set_completion_timeout_range", 0, n, "", <<>>)
  /\ \E l \in ListingsRoot, c \in DevCap2Profiles :
       host = HostOf(l, DevCapDefault, c, PcieCapDefault, AcsCapDefault, "flat")
  /\ devctl = DevCtlDefault
  /\ devctl2 \in DevCtl2Profiles
  /\ acsctl = AcsCtlDefault

InitAcs ==
  /\ \/ \E op \in {"enable_acs", "disable_acs"} :
          /\ cmd = Cmd(op, 0, <<>>, "", <<>>)
          /\ \E l \in Listings, a \in AcsCapProfiles :
               host = HostOf(l, DevCapDefault, DevCap2Default, PcieCapDefault, a, "flat")
     \/ \E arg \in {EP_A, EP_B, EP_X, LineA, EP_A \o <<"\n">>},
           st \in {"enable", "disable"} :
          /\ cmd = Cmd("configure_acs_for_upstream_ports", 0, <<>>, st, arg)
          /\ \E a \in AcsCapProfiles, t \in Trees :
               host = HostOf(<<LineA>>, DevCapDefault, DevCap2Default,
                             PcieCapDefault, a, t)
  /\ devctl = DevCtlDefault
  /\ devctl2 = DevCtl2Default
  /\ acsctl \in AcsCtlProfiles

InitExt ==
  /\ cmd = Cmd("enable_pcie_extend", 0, <<>>, "", <<>>)
  /\ \E l \in Listings, p \in {PcieCapDefault, DevFn(TRUE, TRUE, FALSE, TRUE)},
        t \in Trees :
       host = HostOf(l, DevCapDefault, DevCap2Default, p, AcsCapDefault, t)
  /\ devctl \in ExtDevCtlProfiles
  /\ devctl2 = DevCtl2Default
  /\ acsctl = AcsCtlDefault

\* each command on a host where one of the programs is not installed
InitLacking ==
  /\ cmd \in {Cmd("set_max_payload", 1, <<>>, "", <<>>),
               Cmd("set_max_read_req", 2, <<>>, "", <<>>),
               Cmd("set_completion_timeout_disable", 1, <<>>, "", <<>>),
               Cmd("set_completion_timeout_range", 0, RangeName("A", "1"), "", <<>>),
               Cmd("enable_acs", 0, <<>>, "", <<>>),
               Cmd("configure_acs_for_upstream_ports", 0, <<>>, "enable", EP_A),
               Cmd("enable_pcie_extend", 0, <<>>, "", <<>>)}
  /\ \E k \in ToolSets \ {AllTools} : host = HostLacking(k)
  /\ devctl = DevCtlDefault
  /\ devctl2 = DevCtl2Default
  /\ acsctl = AcsCtlDefault

Init ==
  /\ InitMps \/ InitMrrs \/ InitCtd \/ InitCtr \/ InitAcs \/ InitExt
     \/ InitLacking
  /\ run = 1
  /\ pc = "start"
  /\ loc = Loc0
  /\ result = "running"
  /\ faults = 0
  /\ prev = 0
  /\ wlog = <<>>
  /\ rset = {}
  /\ out = {}

Next ==
  \/ set_max_payload
  \/ mps_gpu
  \/ mps_filter
  \/ mps_cap
  \/ mps_cap_read
  \/ mps_set
  \/ mps_set_read
  \/ mps_set_write
  \/ mps_rb
  \/ mps_rb_read
  \/ mps_cur
  \/ mps_cur_read
  \/ set_max_read_req
  \/ mrrs_read
  \/ mrrs_write
  \/ set_completion_timeout_disable
  \/ ctd_gpu
  \/ ctd_read
  \/ ctd_write
  \/ set_completion_timeout_range
  \/ ctr_gpu
  \/ ctr_cap
  \/ ctr_ctl
  \/ ctr_write
  \/ enable_acs
  \/ disable_acs
  \/ configure_acs_for_upstream_ports
  \/ acs_gpu
  \/ acs_dev
  \/ acs_write
  \/ enable_pcie_extend
  \/ ext_gpu
  \/ ext_status
  \/ ext_status_root
  \/ ext_dev
  \/ ext_write
  \/ Rerun

Spec == Init /\ [][Next]_vars


\* ---------------------------------------------------------------------------
\* The properties of set_max_payload

\* the elements of a sequence
SeqSet(s) == {s[i] : i \in 1..Len(s)}

\* a set-MPS invocation with a valid code
IsMps == cmd.op = "set_max_payload" /\ cmd.value \in 0..5

\* the endpoints of the listing, by position
Endpoints == 1..Len(gpu_devices)

\* the devices of the endpoint's path that carry the PCIe capability, and
\* the MPS code a device's Device Capabilities register advertises
Capable(g) ==
  {d \in SeqSet(get_pci_path_to_root(gpu_devices[g])) : d \in Devices /\ host.pciecap[d]}

Advertised(d) == host.devcap[d] % 8

\* the request exceeds the code some PCIe-capable device of the path advertises
ExceedsPath(g) == \E d \in Capable(g) : cmd.value > Advertised(d)

\* the writes to Device Control issued for the endpoint
MpsWrites(g) ==
  {i \in 1..Len(wlog) : wlog[i].gi = g /\ wlog[i].reg = TARGET_REGISTER}

\* the invocation returned to its caller
Returned == pc = "done" /\ result \in {"ret0", "ret1", "ret2"}

\* C1: when the requested MPS code exceeds the minimum of the codes the
\* PCIe-capable devices of an endpoint's path advertise, no register of that
\* path is written for the endpoint and the operation does not return success.
C1_StrictSkip ==
  IsMps =>
    \A g \in Endpoints :
      ExceedsPath(g) => /\ MpsWrites(g) = {}
                        /\ Returned => result # "ret0"

\* C2: every MPS code written to a device is at most the code each
\* PCIe-capable device of the same path advertises: no such device is left out
\* of the minimum and written all the same.
C2_CapabilityInvariant ==
  IsMps =>
    \A i \in 1..Len(wlog) :
      wlog[i].reg = TARGET_REGISTER =>
        \A d \in Capable(wlog[i].gi) : (wlog[i].val \div 32) % 8 <= Advertised(d)

\* the endpoint's turn in the loop of set_max_payload is over
EndpointDone(g) == (pc = "mps_gpu" /\ loc.gi > g) \/ Returned

\* C3: with every register access succeeding and the request at most the
\* path minimum, after the endpoint's turn every PCIe-capable device of its
\* path holds the requested code, a device is reported OK only when it holds
\* it, and no device without the PCIe capability is written.
C3_SuccessCase ==
  (IsMps /\ faults = 0 /\ run = 1) =>
    \A g \in Endpoints :
      (Capable(g) # {} /\ ~ExceedsPath(g) /\ EndpointDone(g)) =>
        /\ \A d \in Capable(g) : (devctl[d] \div 32) % 8 = cmd.value
        /\ \A r \in out : (r.gi = g /\ r.msg = "OK") =>
                             (devctl[r.dev] \div 32) % 8 = cmd.value
        /\ \A i \in MpsWrites(g) : wlog[i].dev \in Capable(g)

\* ---------------------------------------------------------------------------
\* The properties of the ACS commands

\* the writes to the ACS control register
AcsWrites == {i \in 1..Len(wlog) : wlog[i].reg = ECAP_ACS_CTL}

\* the devices strictly between the two ends of a path
Interior(path) == {path[k] : k \in 2..(Len(path) - 1)}

\* C4: ACS is written only on devices strictly between the endpoint and the
\* root port of the path of the address the operation was given, never on
\* either end; a path of one or two devices gets no ACS write.
C4_AcsInteriorOnly ==
  \A i \in AcsWrites :
    LET path == get_pci_path_to_root(acs_targets[wlog[i].gi])
    IN  /\ Len(path) > 2
        /\ wlog[i].dev \in Interior(path)
        /\ wlog[i].dev # path[1]
        /\ wlog[i].dev # path[Len(path)]

\* the bridge between an endpoint and its root port has been written
C4_Witness ==
  /\ cmd.op = "configure_acs_for_upstream_ports"
  /\ cmd.arg = EP_A
  /\ pc = "done"
  /\ \E i \in AcsWrites : wlog[i].dev = BR_A /\ wlog[i].o = "ok"

\* C5: with every access succeeding, the enable-ACS and disable-ACS commands
\* apply the ACS configuration to every endpoint of the listing: each
\* ACS-capable device strictly inside an endpoint's path has been written the
\* target value when the command ends.
C5_AcsEveryEndpoint ==
  (cmd.op \in {"enable_acs", "disable_acs"} /\ pc = "done" /\ faults = 0) =>
    \A g \in Endpoints :
      \A d \in Interior(get_pci_path_to_root(gpu_devices[g])) :
        host.acscap[d] =>
          \E i \in AcsWrites : /\ wlog[i].dev = d
                               /\ wlog[i].val = AcsTargetValue(target_state)


\* ---------------------------------------------------------------------------
\* The second run of an operation

\* the second of two invocations with the same arguments, no access of
\* either having failed: no fault, and no program missing
SecondRun == run = 2 /\ faults = 0 /\ host.tools = AllTools

\* C6 as stated: the second of two runs of a write operation with the same
\* target value issues no register write.
C6_ZeroWrites == SecondRun => wlog = <<>>

\* C6 amended: the second run changes no register value, each of its writes
\* carrying the value the register already holds; it issues no write at all
\* for Extended Tag enable and Completion-Timeout-Disable, which compare the
\* value read with the target before they write.
C6_SecondRunKeepsValues ==
  SecondRun =>
    /\ \A i \in 1..Len(wlog) : wlog[i].val = wlog[i].old
    /\ cmd.op \in {"enable_pcie_extend", "set_completion_timeout_disable"} =>
         wlog = <<>>

\* a second Extended Tag run ended without a write after a first that wrote
C6_Witness ==
  /\ SecondRun
  /\ pc = "done"
  /\ cmd.op = "enable_pcie_extend"
  /\ prev > 0
  /\ wlog = <<>>

\* ---------------------------------------------------------------------------
\* The properties of set_completion_timeout_range

\* the writes of a Completion Timeout range
CtrWrites == {i \in 1..Len(wlog) : wlog[i].reg = CAP_DEVCTL2_L}

\* the bit of the Device Capabilities 2 support mask for a range name
MainRangeBit(name) == CHOOSE k \in 0..3 : <<"A", "B", "C", "D">>[k + 1] = name[1]

\* C7: a Completion Timeout range is written to a device only when the
\* device's Capabilities 2 support mask has the bit of the requested main
\* range (range C is not written on a mask of A and B only) and the device's
\* Completion Timeout Disable bit was 0.
C7_RangeGuard ==
  \A i \in CtrWrites :
    /\ (wlog[i].old \div 16) % 2 = 0
    /\ cmd.name # RangeDefault =>
         (host.devcap2[Slot(wlog[i].dev)] \div Pow2(MainRangeBit(cmd.name))) % 2 = 1

\* range C was written to one device and refused on another of the endpoint
C7_Witness ==
  /\ cmd.name = RangeName("C", "1")
  /\ \E i \in CtrWrites : wlog[i].o = "ok"
  /\ \E r \in out : r.msg = "Does not support"


\* ---------------------------------------------------------------------------
\* Failures in the middle of an operation

\* the MPS code of a Device Control value
MpsCode(v) == (v \div 32) % 8

\* write i to Device Control did not take: the call failed, or the value
\* read back is not the requested code
WriteFailed(i) ==
  \/ wlog[i].o = "fail"
  \/ wlog[i].o = "ignored" /\ MpsCode(wlog[i].old) # cmd.value

\* the endpoint's device was reported FAILED
ReportedFailed(g) == \E r \in out : r.gi = g /\ r.msg = "FAILED"

\* the loop over the devices of the current endpoint has ended
LoopOver == pc = "mps_set" /\ loc.di > Len(loc.devs)

\* C8 as stated: once a write or its verification failed on a device of the
\* path, no further device of that endpoint's path is written.
C8_StrictAbort ==
  IsMps =>
    \A g \in Endpoints :
      \A i, j \in MpsWrites(g) : (i < j /\ WriteFailed(i)) => FALSE

\* C8 amended: a failure on one device does not end the endpoint's loop;
\* when the loop ends every PCIe-capable device it went over has been
\* attempted and reported OK or FAILED, and a FAILED report marks the
\* endpoint as failed.
C8_LoopGoesOn ==
  (IsMps /\ LoopOver) =>
    /\ \A k \in 1..Len(loc.devs) :
         \E r \in out : /\ r.gi = loc.gi
                        /\ r.dev = loc.devs[k]
                        /\ r.msg \in {"OK", "FAILED"}
    /\ ReportedFailed(loc.gi) => ~loc.ok_all

\* the loop ended after a write that failed and a later write on the path
C8_Witness ==
  /\ IsMps
  /\ LoopOver
  /\ \E i, j \in MpsWrites(loc.gi) :
       i < j /\ WriteFailed(i) /\ wlog[i].dev # wlog[j].dev

\* the best-effort operations, with arguments they accept
BestEffort ==
  \/ cmd.op \in {"enable_pcie_extend", "enable_acs", "disable_acs",
                 "configure_acs_for_upstream_ports"}
  \/ cmd.op = "set_completion_timeout_disable" /\ cmd.value \in {0, 1}
  \/ cmd.op = "set_completion_timeout_range" /\ cmd.name \in RangeNames
  \/ cmd.op = "set_max_read_req" /\ cmd.value \in 0..5

\* call g of the operation reached the devices it is about: the interior of
\* the path for ACS, the endpoint for the others (when the endpoint has a path,
\* where the operation needs one)
Attempted(g) ==
  IF cmd.op \in {"enable_acs", "disable_acs", "configure_acs_for_upstream_ports"}
  THEN \A d \in Interior(get_pci_path_to_root(acs_targets[g])) :
         <<d, LSPCI_VVS>> \in rset
  ELSE IF cmd.op = "set_max_read_req"
  THEN <<gpu_devices[g], TARGET_REGISTER>> \in rset
  ELSE get_pci_path_to_root(gpu_devices[g]) # <<>> =>
         \E r \in rset : r[1] = gpu_devices[g]

\* C9: in a best-effort operation a failed register read or write on one
\* device does not keep the operation from attempting the remaining devices
\* and endpoints: when it ends, every endpoint has been attempted.
C9_BestEffort ==
  (BestEffort /\ pc = "done") =>
    \A g \in 1..Len(acs_targets) : Attempted(g)

\* C10: when a device of an endpoint's path failed in set-MPS, every write of
\* the endpoint's path carries the requested code, the devices written with
\* success hold it (nothing restores an earlier value), and the endpoint and
\* the operation are reported failed.
C10_NoRollback ==
  IsMps =>
    \A g \in Endpoints :
      ReportedFailed(g) =>
        /\ \A i \in MpsWrites(g) :
             /\ MpsCode(wlog[i].val) = cmd.value
             /\ wlog[i].o = "ok" => MpsCode(devctl[wlog[i].dev]) = cmd.value
        /\ (pc = "mps_gpu" /\ loc.gi > g) => ~loc.overall_ok
        /\ Returned => result = "ret2"

\* a device changed to the requested code, a later device of the same path
\* failed, and the operation returned failure
C10_Witness ==
  /\ IsMps
  /\ Returned
  /\ result = "ret2"
  /\ \E g \in Endpoints :
       \E i, j \in MpsWrites(g) :
         /\ i < j
         /\ wlog[i].o = "ok"
         /\ MpsCode(wlog[i].old) # cmd.value
         /\ MpsCode(devctl[wlog[i].dev]) = cmd.value
         /\ wlog[j].o = "fail"


\* ---------------------------------------------------------------------------
\* The properties of the walk of get_pci_path_to_root

\* the directory that holds the device's directory: its immediate parent in
\* the hierarchy
Parent(bdf) == RealPath(bdf)[Len(RealPath(bdf)) - 1]

\* an operation holds the path the walk returned for its endpoint
PathReturned == pc # "done" /\ loc.path # <<>>

\* C11: a path the walk returns is not empty, starts with the endpoint asked
\* for, and each element after the first is the immediate parent in the
\* hierarchy of the element before it; an endpoint directly behind a root
\* port has the path (endpoint, root port).
C11_PathShape ==
  PathReturned =>
    /\ loc.path[1] \in SeqSet(gpu_devices) \cup {cmd.arg}
    /\ \A i \in 1..(Len(loc.path) - 1) : loc.path[i + 1] = Parent(loc.path[i])
    /\ ~is_pci_bdf(Parent(Parent(loc.path[1]))) =>
         loc.path = <<loc.path[1], Parent(loc.path[1])>>

\* the components of the endpoint's location from component k downwards all
\* parse as BDFs
BdfDownFrom(comps, k) == \A j \in k..Len(comps) : is_pci_bdf(comps[j])

\* C12: the walk stops at the first ancestor whose name is not a BDF: the
\* path holds no device that lies above a component that is not a BDF, and
\* its last element is the last BDF met before that component.
C12_WalkEnd ==
  PathReturned =>
    LET comps == RealPath(loc.path[1])
    IN  /\ \A k \in 1..Len(comps) :
             comps[k] \in SeqSet(loc.path) => BdfDownFrom(comps, k)
        /\ \E k \in 2..Len(comps) : /\ comps[k] = loc.path[Len(loc.path)]
                                    /\ ~is_pci_bdf(comps[k - 1])
                                    /\ BdfDownFrom(comps, k)


\* ---------------------------------------------------------------------------
\* A path lookup that fails

\* the operations that look up a path for each address they are given
LooksUpPath ==
  cmd.op \in {"set_max_payload", "enable_pcie_extend",
              "set_completion_timeout_disable", "set_completion_timeout_range",
              "enable_acs", "disable_acs", "configure_acs_for_upstream_ports"}

\* the address of call g of the operation, and whether its lookup fails
Target(g) ==
  IF cmd.op \in {"enable_acs", "disable_acs", "configure_acs_for_upstream_ports"}
  THEN acs_targets[g] ELSE gpu_devices[g]

Calls == 1..Len(acs_targets)

LookupFails(g) == get_pci_path_to_root(Target(g)) = <<>>

\* C13 as stated: when the path lookup fails for an endpoint, no register is
\* written on behalf of that endpoint.
C13_LookupFailureWriteFree ==
  LooksUpPath =>
    \A g \in Calls : LookupFails(g) => \A i \in 1..Len(wlog) : wlog[i].gi # g

\* the operation is at the lookup of an address for which it fails
AtFailedLookup ==
  /\ pc \in {"mps_gpu", "ext_gpu", "ctd_gpu", "acs_gpu"}
  /\ loc.gi \in Calls
  /\ LookupFails(loc.gi)

\* C13 amended: when the path lookup fails for an endpoint, set-MPS, Extended
\* Tag, Completion-Timeout-Disable and ACS write no register on its behalf
\* and go on with the next endpoint; Completion-Timeout-Range has then no
\* root port to configure but still configures the endpoint itself, and
\* writes no other device on its behalf.
C13_LookupFailureLocal ==
  /\ [](LooksUpPath =>
         \A g \in Calls : LookupFails(g) =>
           \A i \in 1..Len(wlog) :
             wlog[i].gi = g => /\ cmd.op = "set_completion_timeout_range"
                               /\ wlog[i].dev = gpu_devices[g])
  /\ [][AtFailedLookup =>
          /\ pc' = pc
          /\ loc'.gi = loc.gi + 1
          /\ wlog' = wlog]_vars

\* Completion-Timeout-Disable passed over an endpoint without a path and
\* wrote a register for the next one
C13_Witness ==
  /\ cmd.op = "set_completion_timeout_disable"
  /\ Len(gpu_devices) = 2
  /\ LookupFails(1)
  /\ [gi |-> 1, dev |-> NoDev, msg |-> "Cannot find Root Port"] \in out
  /\ \A i \in 1..Len(wlog) : wlog[i].gi # 1
  /\ \E i \in 1..Len(wlog) : wlog[i].gi = 2 /\ wlog[i].o = "ok"


\* ---------------------------------------------------------------------------
\* A register access that exceeds its timeout

\* C14: an access that exceeds its timeout is a failure of that device only:
\* Extended Tag enable and Completion-Timeout-Disable never end with an
\* unhandled error, and Completion-Timeout-Range ends only after its last
\* endpoint.
C14_TimeoutRecoverable ==
  /\ cmd.op \in {"enable_pcie_extend", "set_completion_timeout_disable"} =>
       result # "exception"
  /\ (cmd.op = "set_completion_timeout_range" /\ cmd.name \in RangeNames
        /\ pc = "done") =>
       loc.gi \notin 1..Len(gpu_devices)


\* ---------------------------------------------------------------------------
\* A program that is not installed

\* the programs a command needs once its value is accepted and an endpoint is
\* listed: set_max_read_req calls setpci without sudo
ToolsNeeded ==
  IF cmd.op = "set_max_read_req" THEN {"lspci", "setpci"} ELSE AllTools

\* C15: when lspci, or the program that reaches the registers, is not
\* installed, the command ends with a non-zero exit status, and nothing is
\* read or written after the call that found it missing.
C15_MissingToolFatal ==
  (/\ cmd.op \in {"set_max_payload", "set_max_read_req", "enable_pcie_extend",
                  "set_completion_timeout_disable", "set_completion_timeout_range"}
   /\ ~(ToolsNeeded \subseteq host.tools)) =>
    /\ Cardinality(rset) <= 1
    /\ wlog = <<>>
    /\ pc = "done" => result \in {"exit1", "exception"}


\* ---------------------------------------------------------------------------
\* A requested value that is not valid

\* the range names of the help text
ValidRangeNames ==
  {RangeDefault} \cup {RangeName(m, k) : m \in {"A", "B", "C", "D"}, k \in {"1", "2"}}

\* the command asks for a value outside the valid ones
InvalidValue ==
  \/ cmd.op \in {"set_max_payload", "set_max_read_req"} /\ cmd.value \notin 0..5
  \/ cmd.op = "set_completion_timeout_disable" /\ cmd.value \notin {0, 1}
  \/ cmd.op = "set_completion_timeout_range" /\ cmd.name \notin ValidRangeNames

\* C16: a command given a value that is not valid reads and writes no
\* register; it ends by reporting the value and returning.
C16_InvalidTouchesNothing ==
  InvalidValue =>
    /\ rset = {}
    /\ wlog = <<>>
    /\ pc \in {"start", "done"}
    /\ pc = "done" =>
         /\ result = IF cmd.op = "set_max_payload" THEN "ret2" ELSE "retNone"
         /\ \E r \in out : r.msg = "Invalid value"

C16_Witness ==
  /\ InvalidValue
  /\ cmd.op = "set_completion_timeout_range"
  /\ Len(gpu_devices) = 2
  /\ pc = "done"
  /\ run = 2


\* ---------------------------------------------------------------------------
\* The order of the writes of one endpoint's operation

\* the operations that work along the path of each listed endpoint
AlongPath ==
  cmd.op \in {"set_max_payload", "enable_pcie_extend",
              "set_completion_timeout_disable", "set_completion_timeout_range"}

\* the position of device d in the path of endpoint g, the endpoint being 1
PathPos(g, d) ==
  LET path == get_pci_path_to_root(gpu_devices[g])
  IN  IF \E k \in 1..Len(path) : path[k] = d
      THEN CHOOSE k \in 1..Len(path) : path[k] = d
      ELSE 1

\* two writes made for the same endpoint, the first before the second
WritePairs ==
  {p \in (1..Len(wlog)) \X (1..Len(wlog)) :
     p[1] < p[2] /\ wlog[p[1]].gi = wlog[p[2]].gi}

\* C17 as stated: within one endpoint's operation no device nearer the root
\* port is written before a device nearer the endpoint.
C17_PathOrder ==
  AlongPath =>
    \A p \in WritePairs :
      PathPos(wlog[p[1]].gi, wlog[p[1]].dev) <= PathPos(wlog[p[2]].gi, wlog[p[2]].dev)

\* C17 amended: set-MPS, Extended Tag enable and Completion-Timeout-Disable
\* write the devices of an endpoint's path in path order, the endpoint first
\* and the root port last; Completion-Timeout-Range writes the root port
\* first and the endpoint after it.
C17_WriteOrder ==
  AlongPath =>
    \A p \in WritePairs :
      LET a == PathPos(wlog[p[1]].gi, wlog[p[1]].dev)
          b == PathPos(wlog[p[2]].gi, wlog[p[2]].dev)
      IN  IF cmd.op = "set_completion_timeout_range" THEN a >= b ELSE a <= b

C17_Witness ==
  /\ cmd.op = "set_completion_timeout_range"
  /\ \E p \in WritePairs :
       /\ wlog[p[1]].dev = RP_A /\ wlog[p[1]].o = "ok"
       /\ wlog[p[2]].dev = EP_A /\ wlog[p[2]].o = "ok"


\* ---------------------------------------------------------------------------
\* The devices written by Extended Tag and the Completion Timeout operations

\* write i is on the endpoint it was made for, or on the last device of that
\* endpoint's path
OnAnEnd(i) ==
  LET path == get_pci_path_to_root(gpu_devices[wlog[i].gi])
  IN  \/ wlog[i].dev = gpu_devices[wlog[i].gi]
      \/ path # <<>> /\ wlog[i].dev = path[Len(path)]

\* C18 as stated: Extended Tag enable and the two Completion Timeout
\* operations write only the endpoint and its root port, never an
\* intermediate bridge.
C18_EndpointAndRootOnly ==
  cmd.op \in {"enable_pcie_extend", "set_completion_timeout_disable",
              "set_completion_timeout_range"} =>
    \A i \in 1..Len(wlog) : OnAnEnd(i)

\* C18 amended: the two Completion Timeout operations write only the endpoint
\* and its root port, never an intermediate bridge; Extended Tag enable
\* writes only devices of the endpoint's path, intermediate bridges included.
C18_WriteScope ==
  /\ cmd.op \in {"set_completion_timeout_disable", "set_completion_timeout_range"} =>
       \A i \in 1..Len(wlog) : OnAnEnd(i)
  /\ cmd.op = "enable_pcie_extend" =>
       \A i \in 1..Len(wlog) :
         wlog[i].dev \in SeqSet(get_pci_path_to_root(gpu_devices[wlog[i].gi]))

C18_Witness ==
  /\ cmd.op = "set_completion_timeout_disable"
  /\ pc = "done"
  /\ \E i, j \in 1..Len(wlog) :
       /\ wlog[i].dev = EP_A /\ wlog[i].o = "ok"
       /\ wlog[j].dev = RP_A /\ wlog[j].o = "ok"
       /\ Len(get_pci_path_to_root(EP_A)) = 3


\* ---------------------------------------------------------------------------
\* Extended Tag along the path

\* enable_pcie_extend is through with endpoint g, no access having failed
ExtProcessed(g) ==
  /\ cmd.op = "enable_pcie_extend"
  /\ host.tools = AllTools
  /\ faults = 0
  /\ loc.gi > g
  /\ get_pci_path_to_root(gpu_devices[g]) # <<>>
  /\ \A d \in SeqSet(get_pci_path_to_root(gpu_devices[g])) : host.pciecap[d]

\* C19: once enable_pcie_extend has processed an endpoint, every read and
\* write having succeeded, bit 8 of Device Control is set on every device of
\* the endpoint's path, whatever the bits were before.
C19_FullPath ==
  \A g \in Endpoints :
    ExtProcessed(g) =>
      \A d \in SeqSet(get_pci_path_to_root(gpu_devices[g])) :
        BitSet(devctl[d], EXT_TAG_BIT_INDEX)


\* ---------------------------------------------------------------------------
\* The result of configure_acs_for_upstream_ports

\* the call on one address has returned True
AcsReturnedTrue ==
  /\ cmd.op = "configure_acs_for_upstream_ports"
  /\ pc = "done"
  /\ result = "retTrue"

\* C20: the ACS operation returns success only if no interior bridge of the
\* path failed and none was skipped for not advertising ACS: every interior
\* bridge has then been written, the write being accepted.
C20_SuccessMeansConfigured ==
  AcsReturnedTrue =>
    /\ \A r \in out : r.msg # "does not support ACS"
    /\ \A d \in Interior(get_pci_path_to_root(cmd.arg)) :
         \E i \in AcsWrites : wlog[i].dev = d /\ wlog[i].o # "fail"


\* ---------------------------------------------------------------------------
\* Writes of the same register

\* two writes of one invocation on the same register of the same device
SameRegister(i, j) ==
  /\ i < j
  /\ Slot(wlog[i].dev) = Slot(wlog[j].dev)
  /\ wlog[i].reg = wlog[j].reg

\* C21 as stated: within one invocation each register of each device is
\* written at most once, also when endpoints share a root port and when a
\* path is the endpoint alone.
C21_WrittenOnce ==
  \A i, j \in 1..Len(wlog) : ~SameRegister(i, j)

\* C21 amended: within the operation on one endpoint each register of each
\* device is written at most once, except by the two Completion Timeout
\* operations on a path that is the endpoint alone, which handle the device
\* as GPU and again as root port; a device on the paths of several endpoints
\* is written again for each of them.
C21_OncePerEndpoint ==
  AlongPath =>
    \A i, j \in 1..Len(wlog) :
      (SameRegister(i, j) /\ wlog[i].gi = wlog[j].gi) =>
        /\ cmd.op \in {"set_completion_timeout_disable", "set_completion_timeout_range"}
        /\ Len(get_pci_path_to_root(gpu_devices[wlog[i].gi])) = 1

\* set-MPS has written the root port two endpoints share for each of them
C21_Witness ==
  /\ cmd.op = "set_max_payload"
  /\ \E i, j \in 1..Len(wlog) :
       /\ SameRegister(i, j)
       /\ wlog[i].dev = RP_A
       /\ wlog[i].gi = 1 /\ wlog[j].gi = 2
       /\ wlog[i].o = "ok" /\ wlog[j].o = "ok"


\* ---------------------------------------------------------------------------
\* The validation of an address

\* 4 hex digits, ':', 2 hex digits, ':', 2 hex digits, '.', 1 hex digit, and
\* nothing else
WellFormed(s) ==
  /\ Len(s) = 12
  /\ \A i \in 1..12 :
       IF i \in {5, 8} THEN s[i] = ":"
       ELSE IF i = 11 THEN s[i] = "."
       ELSE s[i] \in HexDigits

\* the call of configure_acs_for_upstream_ports has validated its address
Validated ==
  /\ cmd.op = "configure_acs_for_upstream_ports"
  /\ pc # "start"

\* C22: the validation accepts exactly the strings DDDD:BB:dd.F of hex
\* digits and refuses every other string, a valid address followed by a
\* newline included.
C22_ExactPattern ==
  Validated =>
    /\ is_pci_bdf(cmd.arg) <=> WellFormed(cmd.arg)
    /\ (loc.gi > 1 /\ ~WellFormed(cmd.arg)) =>
         \E r \in out : r.msg = "not a valid BDF"


\* ---------------------------------------------------------------------------
\* The field written, read back

\* register values a field is encoded into, besides those the registers of
\* the model hold: values with the field, its neighbours or every bit set
PriorValues == {0, 31, 224, 272, 8496, 28672, 36863, 65535}

\* the value the command asks for, as the field of write i holds it
Requested(i) ==
  IF cmd.op = "set_max_payload" THEN _get_mps_current_code(wlog[i].val) = cmd.value
  ELSE IF cmd.op = "set_max_read_req" THEN Field(wlog[i].val, 12, 3) = cmd.value
  ELSE IF cmd.op = "set_completion_timeout_disable"
  THEN Field(wlog[i].val, 4, 1) = cmd.value
  ELSE IF cmd.op = "set_completion_timeout_range"
  THEN Field(wlog[i].val, 0, 4) = RangeCode(cmd.name)
  ELSE IF cmd.op = "enable_pcie_extend" THEN BitSet(wlog[i].val, EXT_TAG_BIT_INDEX)
  ELSE TRUE

\* C23: for every field, every value of its domain and every prior register
\* value, the field decoded from the value the operation writes is the value
\* asked for: in every write issued, and, as an invocation starts, for each
\* value of the domain on each of PriorValues.
C23_RoundTrip ==
  /\ \A i \in 1..Len(wlog) : Requested(i)
  /\ pc = "start" =>
       \A r \in PriorValues :
         /\ \A x \in 0..5 :
              /\ _get_mps_current_code(MpsNewVal(r, x)) = x
              /\ Field(MrrsNewVal(r, x), 12, 3) = x
         /\ \A n \in RangeNames : Field(CtrNewVal(r, n), 0, 4) = RangeCode(n)
         /\ \A b \in {0, 1} : Field(CtdNewVal(r, b), 4, 1) = b
         /\ BitSet(ExtNewVal(r), EXT_TAG_BIT_INDEX)

\* set-MPS has replaced another code by the one asked for
C23_Witness ==
  /\ cmd.op = "set_max_payload"
  /\ \E i \in 1..Len(wlog) :
       /\ wlog[i].o = "ok"
       /\ wlog[i].old # None
       /\ MpsCode(wlog[i].old) # cmd.value
       /\ MpsCode(devctl[Slot(wlog[i].dev)]) = cmd.value


\* ---------------------------------------------------------------------------
\* A path without a PCIe-capable device

\* set_max_payload is through with endpoint g, whose path was found and has
\* no device with the PCIe capability
NoneCapable(g) ==
  /\ loc.gi > g
  /\ get_pci_path_to_root(gpu_devices[g]) # <<>>
  /\ Capable(g) = {}

\* C24: set-MPS on a path with no PCIe-capable device reports the endpoint
\* with an error, writes no register for it, and returns non-zero.
C24_NoCapableIsFailure ==
  IsMps =>
    \A g \in Endpoints :
      NoneCapable(g) =>
        /\ \E r \in out : r.gi = g /\ r.msg = "no PCIe-capable devices"
        /\ \A i \in 1..Len(wlog) : wlog[i].gi # g
        /\ ~loc.overall_ok
        /\ pc = "done" => result = "ret2"

C24_Witness ==
  /\ IsMps
  /\ pc = "done"
  /\ Len(gpu_devices) = 2
  /\ NoneCapable(1)
  /\ NoneCapable(2)


\* ---------------------------------------------------------------------------
\* The ACS capability

\* C25: the ACS operation issues a write of the ACS control byte only to a
\* bridge that advertises the ACS capability; a bridge without it is passed
\* over and never written.
C25_AcsGate ==
  \A i \in AcsWrites : host.acscap[Slot(wlog[i].dev)]

\* the call is over: the bridge without ACS was reported and not written
C25_Witness ==
  /\ cmd.op = "configure_acs_for_upstream_ports"
  /\ pc = "done"
  /\ ~host.acscap[BR_A]
  /\ \E r \in out : r.dev = BR_A /\ r.msg = "does not support ACS"
  /\ wlog = <<>>


\* ---------------------------------------------------------------------------
\* The value set_max_payload returns

\* every PCIe-capable device of the endpoint's path was written and reported
\* OK, the code read back being the requested one
Verified(g) ==
  \A d \in Capable(g) :
    /\ \E i \in MpsWrites(g) : wlog[i].dev = d
    /\ \E r \in out : r.gi = g /\ r.dev = d /\ r.msg = "OK"

\* C26: set_max_payload returns 0 if and only if an endpoint was detected
\* and, for every detected endpoint, the path was found, the request did not
\* exceed the path minimum and every device write was verified.
C26_ResultIsAnd ==
  (IsMps /\ Returned) =>
    (result = "ret0" <=>
       /\ gpu_devices # <<>>
       /\ \A g \in Endpoints :
            /\ get_pci_path_to_root(gpu_devices[g]) # <<>>
            /\ Capable(g) # {}
            /\ ~ExceedsPath(g)
            /\ Verified(g))


\* ---------------------------------------------------------------------------
\* The bits outside the field written

\* a and b are equal outside the field of `width` bits at bit lo
SameOutside(a, b, lo, width) == WithField(a, lo, width, 0) = WithField(b, lo, width, 0)

\* write i differs from what the register held only inside the field of the
\* operation; an Extended Tag write sets bit 8
KeepsOtherBits(i) ==
  IF cmd.op = "set_max_payload" THEN SameOutside(wlog[i].val, wlog[i].old, 5, 3)
  ELSE IF cmd.op = "set_max_read_req" THEN SameOutside(wlog[i].val, wlog[i].old, 12, 3)
  ELSE IF cmd.op = "set_completion_timeout_disable"
  THEN SameOutside(wlog[i].val, wlog[i].old, 4, 1)
  ELSE IF cmd.op = "set_completion_timeout_range"
  THEN SameOutside(wlog[i].val, wlog[i].old, 0, 4)
  ELSE IF cmd.op = "enable_pcie_extend"
  THEN /\ SameOutside(wlog[i].val, wlog[i].old, EXT_TAG_BIT_INDEX, 1)
       /\ BitSet(wlog[i].val, EXT_TAG_BIT_INDEX)
  ELSE TRUE

\* C27: the value each operation writes differs from the value read only
\* inside the field's own bits (bit 8, bits 5:7, bits 12:14, bit 4, bits 0:3),
\* and Extended Tag only sets its bit: in every write issued, and, as an
\* invocation starts, for each value of the domain on each of PriorValues.
C27_OtherBitsKept ==
  /\ \A i \in 1..Len(wlog) : wlog[i].old # None => KeepsOtherBits(i)
  /\ pc = "start" =>
       \A r \in PriorValues :
         /\ \A x \in 0..5 :
              /\ SameOutside(MpsNewVal(r, x), r, 5, 3)
              /\ SameOutside(MrrsNewVal(r, x), r, 12, 3)
         /\ \A n \in RangeNames : SameOutside(CtrNewVal(r, n), r, 0, 4)
         /\ \A b \in {0, 1} : SameOutside(CtdNewVal(r, b), r, 4, 1)
         /\ SameOutside(ExtNewVal(r), r, EXT_TAG_BIT_INDEX, 1)
         /\ ExtNewVal(r) >= r

\* set-MRRS has written 0x5130 over 0x2130
C27_Witness ==
  /\ cmd.op = "set_max_read_req"
  /\ \E i \in 1..Len(wlog) :
       /\ wlog[i].o = "ok"
       /\ wlog[i].old = 8496
       /\ wlog[i].val = 20784


\* ---------------------------------------------------------------------------
\* The status of Extended Tag

\* the last device of the path of endpoint g
RootOf(g) ==
  LET path == get_pci_path_to_root(gpu_devices[g])
  IN  path[Len(path)]

\* bit 8 of Device Control is set on the endpoint g and on the last device
\* of its path
EndsEnabled(g) ==
  /\ BitSet(devctl[gpu_devices[g]], EXT_TAG_BIT_INDEX)
  /\ BitSet(devctl[RootOf(g)], EXT_TAG_BIT_INDEX)

\* what get_extend_status answers for the two values read
StatusAsStated ==
  \A e, r \in {None, 16, 272} :
    /\ ExtendStatus(e, r) = "None" <=> (e = None \/ r = None)
    /\ ExtendStatus(e, r) = "True" <=> (e = 272 /\ r = 272)

\* the reads a step of get_extend_status issues
StatusReads ==
  pc \in {"ext_status", "ext_status_root"} =>
    \A a \in rset' \ rset :
      a[1] \in {gpu_devices[loc.gi], loc.path[Len(loc.path)]}

Listed(g) == SplitFirst(host.lines[g])

\* C29: set-MRRS reads and writes only Device Control (CAP_EXP+8.w) of the
\* endpoints listed, each written for its own turn; it looks up no path,
\* checks no capability, and touches no bridge and no root port.
C29_MrrsLocal ==
  cmd.op = "set_max_read_req" =>
    /\ \A a \in rset :
         /\ a[2] = "CAP_EXP+8.w"
         /\ \E g \in 1..Len(host.lines) : a[1] = Listed(g)
    /\ \A i \in 1..Len(wlog) :
         /\ wlog[i].reg = "CAP_EXP+8.w"
         /\ wlog[i].dev = Listed(wlog[i].gi)
    /\ \A a \in rset \cup {<<wlog[i].dev, wlog[i].reg>> : i \in 1..Len(wlog)} :
         a[1] \notin {BR_A, RP_A}
    /\ loc.path = <<>> /\ loc.devs = <<>> /\ loc.caps = <<>>

\* both endpoints were written, and the invocation is over
C29_Witness ==
  /\ cmd.op = "set_max_read_req"
  /\ pc = "done"
  /\ \E i, j \in 1..Len(wlog) :
       /\ wlog[i].dev = EP_A /\ wlog[i].o = "ok"
       /\ wlog[j].dev = EP_B /\ wlog[j].o = "ok"
  /\ rset = {<<EP_A, "CAP_EXP+8.w">>, <<EP_B, "CAP_EXP+8.w">>}


====
